---------------------------- MODULE Spec2Model ----------------------------
(***************************************************************************)
(* Trust Scoring Engine of aihint (src/aihint/scoring/engine.py) and the   *)
(* scorers it orchestrates (src/aihint/scoring/scorers/*.py).              *)
(* The scoring commands (src/aihint/cli_scoring.py) and the hint documents *)
(* with their signatures (src/aihint/core.py, src/aihint/models.py) follow *)
(* in sections of their own.                                               *)
(*                                                                         *)
(* Numbers.  The code computes in floats; the model computes in exact      *)
(* fixed point, one unit per layer, so that no product is rounded:         *)
(*   check score       thousandths   (0.8   is 800)                        *)
(*   check weight      tenths        (0.4   is 4)                          *)
(*   category score    1/10^4        (0.8   is 8000)                       *)
(*   category weight   hundredths    (0.35  is 35)                         *)
(*   final score       1/10^6        (0.755 is 755000)                     *)
(*   confidence        1/ConfUnit    (6/9   is 12 when ConfUnit is 18)     *)
(***************************************************************************)
EXTENDS Integers, Sequences, FiniteSets, TLC

VARIABLES
    engine,     \* the TrustScoringEngine object: state, config, weights, scorers
    stub,       \* test doubles installed in engine.scorers: check -> outcome, or Live
    pc,         \* per call of score_website: "idle", "gather", "done", "raised"
    url,        \* per call: the url argument
    agg,        \* per call, per category: the aggregator coroutine's frame
    result,     \* per call: the ScoringResult returned, or NoResult
    finished,   \* per call: the categories in the order their coroutines ended,
                \* as a test with doubles and injected delays observes it
    probe,      \* the last TrustLevel.from_score call made outside the engine
    cli,        \* the scoring command being run (cli_scoring.py): options, position,
                \* results collected, what it echoed and what it wrote to the file
    hint        \* the hint document in hand (core.py): its fields, the keys in
                \* play, the last sign/verify/save/load outcome

vars == <<engine, stub, pc, url, agg, result, finished, probe, cli, hint>>

\* no command is running; no hint has been created
NoCommand == [cmd |-> "none"]

NoHint == [op |-> "none"]

(***************************************************************************)
(* Bounds of the model.                                                    *)
(***************************************************************************)
MaxSlots == 2       \* calls of score_website kept side by side

Slots == 1..MaxSlots

(***************************************************************************)
(* Names.                                                                  *)
(***************************************************************************)
Categories == <<"security", "reputation", "compliance">>

CategorySet == {Categories[k] : k \in 1..3}

\* engine.py 88-98: the registry of nine scorers, by name
ScorerNames ==
    {"ssl_tls", "security_headers", "malware",
     "domain_reputation", "domain_age", "incidents",
     "privacy_policy", "contact", "compliance"}

\* engine.py 219-234, 250-265, 281-296: the checks each aggregator awaits, in order
CategoryChecks ==
    [security   |-> <<"ssl_tls", "security_headers", "malware">>,
     reputation |-> <<"domain_reputation", "domain_age", "incidents">>,
     compliance |-> <<"privacy_policy", "contact", "compliance">>]

\* engine.py 221-233 (and the two siblings): intra-category weights, in tenths
CheckWeights == <<4, 3, 3>>

\* engine.py 101-105: category weights, in hundredths
DefaultWeights == [security |-> 40, reputation |-> 35, compliance |-> 25]

NumChecks == Cardinality(ScorerNames)

\* confidence is kept in units of 1/ConfUnit: n/3, n/6 and n/9 are all exact
ConfUnit == 2 * NumChecks

(***************************************************************************)
(* TrustLevel (engine.py 28-47).                                           *)
(***************************************************************************)
\* the members of the enum, in declaration order
LevelNames == <<"VERY_LOW", "LOW", "MODERATE", "GOOD", "HIGH">>

\* engine.py 30-34: (min_score, max_score) of each member, in 1/10^6
TrustLevel ==
    [VERY_LOW |-> [min_score |-> 0,      max_score |-> 290000],
     LOW      |-> [min_score |-> 300000, max_score |-> 490000],
     MODERATE |-> [min_score |-> 500000, max_score |-> 690000],
     GOOD     |-> [min_score |-> 700000, max_score |-> 890000],
     HIGH     |-> [min_score |-> 900000, max_score |-> 1000000]]

\* the members whose range holds the score (line 45's test)
MatchingLevels(score) ==
    {k \in 1..Len(LevelNames) :
        /\ TrustLevel[LevelNames[k]].min_score <= score
        /\ score <= TrustLevel[LevelNames[k]].max_score}

\* engine.py 41-47: the first member in declaration order whose range holds the
\* score; VERY_LOW when none does
from_score(score) ==
    IF MatchingLevels(score) # {}
    THEN LevelNames[CHOOSE k \in MatchingLevels(score) :
                        \A j \in MatchingLevels(score) : k <= j]
    ELSE "VERY_LOW"

\* engine.py 30-34: the description of each member
Descriptions ==
    [VERY_LOW |-> "Very low trust (malicious, compromised, or highly suspicious)",
     LOW      |-> "Low trust (multiple red flags, proceed with caution)",
     MODERATE |-> "Moderate trust (newer sites, some concerns)",
     GOOD     |-> "Good trust (legitimate businesses, established sites)",
     HIGH     |-> "Highly trusted (banks, major corporations, verified entities)"]

\* engine.py 338-341
get_trust_level_description(score) == Descriptions[from_score(score)]

(***************************************************************************)
(* The reductions of the engine (engine.py 305-336).                       *)
(***************************************************************************)
\* the three categories weighted alike
_calculate_weighted_score_unweighted(weights, security_score, reputation_score, compliance_score) ==
    ((security_score + reputation_score + compliance_score) * 100) \div 3

\* engine.py 305-311
_calculate_weighted_score(weights, security_score, reputation_score, compliance_score) ==
    security_score * weights.security
        + reputation_score * weights.reputation
        + compliance_score * weights.compliance

\* a metrics dict is the sequence of its (key, value) entries in insertion order;
\* the aggregators insert each key once
Keys(metrics) == {metrics[k].key : k \in DOMAIN metrics}

\* the entries counted as successful: metric_data.get('success', False)
SuccessfulEntries(metrics) == {k \in DOMAIN metrics : metrics[k].value.success}

\* engine.py 313-336: successful / total over the entries of the three dicts
_calculate_confidence(security_metrics, reputation_metrics, compliance_metrics) ==
    LET total_checks == Len(security_metrics) + Len(reputation_metrics)
                          + Len(compliance_metrics)
        successful_checks == Cardinality(SuccessfulEntries(security_metrics))
                               + Cardinality(SuccessfulEntries(reputation_metrics))
                               + Cardinality(SuccessfulEntries(compliance_metrics))
    IN  IF total_checks > 0
        THEN (successful_checks * ConfUnit) \div total_checks
        ELSE 0

(***************************************************************************)
(* The scorers.  Each score(url) returns (score, metrics-map); the model   *)
(* keeps of the metrics-map the keys the engine and the claims read:       *)
(* success, the scorer's own <name>_score, and whether error and timestamp *)
(* are present.  What a scorer reads from the network is its observation,  *)
(* an input; fault stands for any exception raised inside score()'s try.   *)
(***************************************************************************)
\* the url argument: one urlparse accepts, and one urlparse raises ValueError
\* on (such as "http://[bad")
UrlKinds == {"wellformed", "malformed"}

urlparse_raises(u) == u = "malformed"

RECURSIVE SumScores(_)
SumScores(results) ==
    IF results = <<>> THEN 0
    ELSE Head(results).score + SumScores(Tail(results))

RECURSIVE SumWeighted(_)
SumWeighted(results) ==
    IF results = <<>> THEN 0
    ELSE Head(results).score * Head(results).weight + SumWeighted(Tail(results))

RECURSIVE SumWeights(_)
SumWeights(results) ==
    IF results = <<>> THEN 0
    ELSE Head(results).weight + SumWeights(Tail(results))

\* the results gather() returned that are not exceptions, in order
NotExceptions(results) == SelectSeq(results, LAMBDA r : ~r.exc)

\* a scorer's return on its normal path: 'success': True, no 'error' key
Succeeded(score) ==
    [score |-> score,
     metrics |-> [success |-> TRUE, score |-> score, error |-> FALSE, timestamp |-> TRUE]]

\* an except branch that reports the failure without the 'error' key
Failed_without_error ==
    [score |-> 0,
     metrics |-> [success |-> FALSE, score |-> 0, error |-> FALSE, timestamp |-> TRUE]]

\* an except branch that reports the failure with the neutral score 0.5
Failed_neutral ==
    [score |-> 500,
     metrics |-> [success |-> FALSE, score |-> 0, error |-> TRUE, timestamp |-> TRUE]]

\* a scorer's return from its except branch (ssl_tls.py 74-81 and the same lines
\* of every other scorer): 0.0 and 'success': False with 'error'
Failed ==
    [score |-> 0,
     metrics |-> [success |-> FALSE, score |-> 0, error |-> TRUE, timestamp |-> TRUE]]

\* a sub-check result: a dict with a score, or the exception gather() returned
Sub(score) == [exc |-> FALSE, score |-> score]

SubExc == [exc |-> TRUE, score |-> 0]

\* ssl_tls.py 26-81: the mean of the sub-checks that did not raise
SSLTLSValidator_score(u, o) ==
    IF urlparse_raises(u) \/ o.fault THEN Failed
    ELSE LET results == NotExceptions(o.ssl_checks)
             total_score == SumScores(results)
             max_score == Len(results)
         IN  Succeeded(IF max_score > 0 THEN total_score \div max_score ELSE 0)

\* security_headers.py 24-65: the weight of each header, in hundredths
HeaderWeights == <<25, 20, 15, 10, 10, 10, 5, 5>>

\* security_headers.py 67-128: the weighted mean of the eight header checks; a
\* failed fetch is an empty header dict, and every check scores 0.0
SecurityHeadersAnalyzer_score(u, o) ==
    IF o.fault THEN Failed
    ELSE LET fetched == ~urlparse_raises(u) /\ o.fetched
             results == [k \in 1..Len(HeaderWeights) |->
                            [score |-> IF fetched THEN o.header_scores[k] ELSE 0,
                             weight |-> HeaderWeights[k]]]
             total_score == SumWeighted(results)
             max_score == SumWeights(results)
         IN  Succeeded(IF max_score > 0 THEN total_score \div max_score ELSE 0)

\* the Check contract of spec.md 4.1 and 6 (malware.py is not among the sources):
\* a score in [0,1] with success, or 0.0 with success=false and error
MalwareChecker_score(u, o) ==
    IF o.fault THEN Failed ELSE Succeeded(o.malware_score)

\* domain_reputation.py 45-109: the weighted mean of the sources that did not
\* raise, 0.5 when none is left
DomainReputationChecker_score(u, o) ==
    IF urlparse_raises(u) \/ o.fault THEN Failed
    ELSE LET results == NotExceptions(o.reputation_checks)
             total_score == SumWeighted(results)
             max_score == SumWeights(results)
         IN  Succeeded(IF max_score > 0 THEN total_score \div max_score ELSE 500)

\* domain_age.py 49-66: the score of the domain's age in days
AgeScore(age_days) ==
    IF age_days < 1 THEN 100
    ELSE IF age_days < 7 THEN 200
    ELSE IF age_days < 30 THEN 400
    ELSE IF age_days < 90 THEN 600
    ELSE IF age_days < 365 THEN 800
    ELSE 1000

\* domain_age.py 22-132: 1.0, replaced by the age's score and lowered by the
\* penalties of a recent update, a near expiry and an unknown registrar;
\* returned as max(0.0, score)
DomainAgeAnalyzer_score(u, o) ==
    IF urlparse_raises(u) \/ o.fault THEN Failed
    ELSE LET aged == IF o.has_creation_date THEN AgeScore(o.age_days) ELSE 1000
             updated == IF o.has_updated_date /\ o.days_since_update < 7
                        THEN aged - 100 ELSE aged
             expiring == IF o.has_expiration_date /\ o.days_until_expiry < 30
                         THEN updated - 200
                         ELSE IF o.has_expiration_date /\ o.days_until_expiry < 90
                         THEN updated - 100
                         ELSE updated
             score == IF o.has_registrar /\ ~o.registrar_reputable
                      THEN expiring - 100 ELSE expiring
         IN  Succeeded(IF score > 0 THEN score ELSE 0)

\* incidents.py 83-299: the seven simulated checks, each a function of the
\* keywords found in the domain name
IncidentChecks(kw) ==
    <<Sub(1000),                                                 \* security incidents
      Sub(1000),                                                 \* downtime history
      Sub(1000),                                                 \* ssl incidents
      Sub(IF "test" \in kw THEN 800 ELSE 1000),                  \* data breaches
      Sub(IF {"malware", "phish"} \cap kw # {} THEN 0 ELSE 1000), \* malware history
      Sub(IF {"phish", "scam"} \cap kw # {} THEN 0 ELSE 1000),   \* phishing incidents
      Sub(IF "illegal" \in kw THEN 0 ELSE 1000)>>                \* regulatory violations

\* incidents.py 22-81: the mean of the checks that did not raise, 0.5 when none
\* is left (the quotient by 7 is floored to the thousandth)
IncidentTracker_score(u, o) ==
    IF urlparse_raises(u) \/ o.fault THEN Failed
    ELSE LET results == NotExceptions(IncidentChecks(o.keywords))
             total_score == SumScores(results)
             max_score == Len(results)
         IN  Succeeded(IF max_score > 0 THEN total_score \div max_score ELSE 500)

\* privacy_policy.py 126-280: the content analysis of the policy page; the
\* score is capped at 1.0 and has no floor
_analyze_privacy_policy(o) ==
    IF o.analysis_raises \/ ~o.status_200 THEN 0
    ELSE LET sections == o.sections_found * 100
             gdpr == IF o.gdpr_found >= 3 THEN 200
                     ELSE IF o.gdpr_found >= 1 THEN 100 ELSE 0
             ccpa == IF o.ccpa_found >= 2 THEN 100 ELSE 0
             contact == IF o.contact_found THEN 100 ELSE 0
             dates == IF o.dates_found THEN 100 ELSE 0
             length == IF o.word_count > 2000 THEN 100
                       ELSE IF o.word_count > 1000 THEN 50
                       ELSE IF o.word_count < 500 THEN 0 - 100
                       ELSE 0
             legal == IF o.legal_found >= 3 THEN 100 ELSE 0
             score == sections + gdpr + ccpa + contact + dates + length + legal
         IN  IF score > 1000 THEN 1000 ELSE score

\* privacy_policy.py 24-62: 0.0 with success when no policy page is found (the
\* search catches its own exceptions, a url urlparse rejects among them), else
\* the analysis' score
PrivacyPolicyAnalyzer_score(u, o) ==
    IF o.fault THEN Failed
    ELSE IF urlparse_raises(u) \/ ~o.privacy_url_found THEN Succeeded(0)
    ELSE Succeeded(_analyze_privacy_policy(o))

\* contact.py 272-347
_analyze_contact_quality(o) ==
    LET emails == IF o.emails = "contact" THEN 300
                  ELSE IF o.emails = "automated" THEN 100 ELSE 0
        phones == IF o.phones THEN 200 ELSE 0
        addresses == IF o.addresses THEN 200 ELSE 0
        pages == IF o.contact_pages THEN 100 ELSE 0
        social == IF o.social_media THEN 100 ELSE 0
        kinds == (IF o.emails # "none" THEN 1 ELSE 0) + (IF o.phones THEN 1 ELSE 0)
                    + (IF o.addresses THEN 1 ELSE 0)
        bonus == IF kinds >= 2 THEN 100 ELSE 0
        personal == IF o.emails # "none" /\ o.all_personal THEN 0 - 100 ELSE 0
        score == emails + phones + addresses + pages + social + bonus + personal
    IN  IF score < 0 THEN 0 ELSE IF score > 1000 THEN 1000 ELSE score

\* contact.py 62-117: 0.5 plus bonuses, capped at 1.0; 0.3 from its except
\* branch.  Line 88 reads 'phone_numbers', a key contact_info never has
_validate_business_contact(o) ==
    IF o.business_raises THEN 300
    ELSE LET domains == IF o.emails # "none" /\ ~o.all_personal THEN 200 ELSE 0
             addresses == IF o.addresses THEN 200 ELSE 0
             social == IF o.social_media THEN 100 ELSE 0
             indicators == IF o.url_business_terms THEN 100 ELSE 0
             score == 500 + domains + addresses + social + indicators
         IN  IF score > 1000 THEN 1000 ELSE score

\* what _find_contact_information (contact.py 119-158) returns when nothing can
\* be fetched: every list empty
NoContactInfo(o) ==
    [o EXCEPT !.emails = "none", !.all_personal = FALSE, !.phones = FALSE,
              !.addresses = FALSE, !.contact_pages = FALSE, !.social_media = FALSE]

\* contact.py 24-60: the mean of the two analyses
ContactValidator_score(u, o) ==
    IF o.fault THEN Failed
    ELSE LET info == IF urlparse_raises(u) THEN NoContactInfo(o) ELSE o
         IN  Succeeded((_analyze_contact_quality(info)
                            + _validate_business_contact(info)) \div 2)

\* compliance.py 408-461: the terms page's score, capped at 1.0 with no floor
_analyze_terms_content(o) ==
    IF o.terms_raises \/ ~o.terms_status_200 THEN 0
    ELSE LET sections == o.terms_sections * 100
             length == IF o.terms_words > 1000 THEN 200
                       ELSE IF o.terms_words < 500 THEN 0 - 100
                       ELSE 0
             score == sections + length
         IN  IF score > 1000 THEN 1000 ELSE score

\* compliance.py 201-233: 0.3 when no terms page is found
_check_terms_of_service(u, o) ==
    IF urlparse_raises(u) \/ ~o.terms_found THEN 300
    ELSE _analyze_terms_content(o)

\* what the six other checks of compliance.py return when nothing can be
\* fetched and the url holds none of their keywords: cookie compliance 0.2
\* (243-246), accessibility 0.0 (284-318), legal notices 0.0 (334-351),
\* business registration 0.5 (86), regulatory 0.7 (127), data protection 0.6
UnreachableSiteChecks == <<Sub(200), Sub(0), Sub(0), Sub(500), Sub(700), Sub(600)>>

\* compliance.py 24-80: the mean of the seven checks that did not raise, 0.5
\* when none is left (the quotient is floored to the thousandth)
ComplianceChecker_score(u, o) ==
    IF o.fault THEN Failed
    ELSE LET others == IF urlparse_raises(u) THEN UnreachableSiteChecks
                       ELSE o.other_checks
             results == NotExceptions(<<Sub(_check_terms_of_service(u, o))>> \o others)
             total_score == SumScores(results)
             max_score == Len(results)
         IN  Succeeded(IF max_score > 0 THEN total_score \div max_score ELSE 500)

\* engine.py 88-98 and 219-296: self.scorers[name].score(url)
ScorerScore(name, u, o) ==
    CASE name = "ssl_tls"           -> SSLTLSValidator_score(u, o)
      [] name = "security_headers"  -> SecurityHeadersAnalyzer_score(u, o)
      [] name = "malware"           -> MalwareChecker_score(u, o)
      [] name = "domain_reputation" -> DomainReputationChecker_score(u, o)
      [] name = "domain_age"        -> DomainAgeAnalyzer_score(u, o)
      [] name = "incidents"         -> IncidentTracker_score(u, o)
      [] name = "privacy_policy"    -> PrivacyPolicyAnalyzer_score(u, o)
      [] name = "contact"           -> ContactValidator_score(u, o)
      [] name = "compliance"        -> ComplianceChecker_score(u, o)

(***************************************************************************)
(* The observations the live scorers are run on.                           *)
(***************************************************************************)
Faulty == [fault |-> TRUE]

SSLObservations ==
    {Faulty,
     \* no TLS endpoint: each sub-check returns its own failure dict, score 0.0
     [fault |-> FALSE, ssl_checks |-> <<Sub(0), Sub(0), Sub(0), Sub(0)>>],
     \* a 60-day certificate, a 128-bit cipher, TLS 1.2, a sub-check that raised
     [fault |-> FALSE, ssl_checks |-> <<Sub(900), Sub(700), SubExc, Sub(800)>>]}

HeaderObservations ==
    {Faulty,
     [fault |-> FALSE, fetched |-> FALSE,
      header_scores |-> <<0, 0, 0, 0, 0, 0, 0, 0>>],
     [fault |-> FALSE, fetched |-> TRUE,
      header_scores |-> <<1000, 800, 1000, 1000, 800, 0, 1000, 0>>]}

MalwareObservations ==
    {Faulty, [fault |-> FALSE, malware_score |-> 1000]}

ReputationObservations ==
    {Faulty,
     \* a domain younger than a year, one blacklist hit, no dns finding
     [fault |-> FALSE,
      reputation_checks |-> <<[exc |-> FALSE, score |-> 900, weight |-> 4],
                              [exc |-> FALSE, score |-> 700, weight |-> 3],
                              [exc |-> FALSE, score |-> 1000, weight |-> 3]>>]}

DomainAgeObservations ==
    {Faulty,
     [fault |-> FALSE, has_creation_date |-> TRUE, age_days |-> 4000,
      has_updated_date |-> TRUE, days_since_update |-> 200,
      has_expiration_date |-> TRUE, days_until_expiry |-> 400,
      has_registrar |-> TRUE, registrar_reputable |-> TRUE],
     [fault |-> FALSE, has_creation_date |-> TRUE, age_days |-> 0,
      has_updated_date |-> TRUE, days_since_update |-> 0,
      has_expiration_date |-> TRUE, days_until_expiry |-> 20,
      has_registrar |-> TRUE, registrar_reputable |-> FALSE]}

IncidentObservations ==
    {Faulty,
     [fault |-> FALSE, keywords |-> {}],
     [fault |-> FALSE, keywords |-> {"phish"}]}

PolicyPage(found, sections, gdpr, ccpa, contact, dates, words, legal) ==
    [fault |-> FALSE, privacy_url_found |-> found, status_200 |-> TRUE,
     analysis_raises |-> FALSE, sections_found |-> sections, gdpr_found |-> gdpr,
     ccpa_found |-> ccpa, contact_found |-> contact, dates_found |-> dates,
     word_count |-> words, legal_found |-> legal]

PrivacyObservations ==
    {Faulty,
     PolicyPage(FALSE, 0, 0, 0, FALSE, FALSE, 0, 0),
     \* a page of under 500 words that matches no indicator
     PolicyPage(TRUE, 0, 0, 0, FALSE, FALSE, 120, 0),
     PolicyPage(TRUE, 8, 3, 2, TRUE, TRUE, 2500, 3)}

ContactObservations ==
    {Faulty,
     [fault |-> FALSE, emails |-> "none", all_personal |-> FALSE, phones |-> FALSE,
      addresses |-> FALSE, contact_pages |-> FALSE, social_media |-> FALSE,
      url_business_terms |-> FALSE, business_raises |-> FALSE],
     [fault |-> FALSE, emails |-> "contact", all_personal |-> FALSE, phones |-> TRUE,
      addresses |-> TRUE, contact_pages |-> TRUE, social_media |-> TRUE,
      url_business_terms |-> FALSE, business_raises |-> FALSE]}

ComplianceObservations ==
    {Faulty,
     [fault |-> FALSE, terms_found |-> TRUE, terms_status_200 |-> TRUE,
      terms_raises |-> FALSE, terms_sections |-> 6, terms_words |-> 1500,
      other_checks |-> <<Sub(1000), Sub(700), Sub(600), Sub(500), Sub(700), Sub(600)>>]}

Observations(name) ==
    CASE name = "ssl_tls"           -> SSLObservations
      [] name = "security_headers"  -> HeaderObservations
      [] name = "malware"           -> MalwareObservations
      [] name = "domain_reputation" -> ReputationObservations
      [] name = "domain_age"        -> DomainAgeObservations
      [] name = "incidents"         -> IncidentObservations
      [] name = "privacy_policy"    -> PrivacyObservations
      [] name = "contact"           -> ContactObservations
      [] name = "compliance"        -> ComplianceObservations

(***************************************************************************)
(* TrustScoringEngine.__init__ (engine.py 72-105).                         *)
(***************************************************************************)
\* the config argument: omitted (None), {} as cli_scoring.py passes it, a dict
\* of per-scorer timeouts, or a dict with a 'weights' entry whose three category
\* weights are 0.5 each (__init__ reads no such key)
ConfigInputs == {"None", "empty", "timeouts", "weights"}

\* the values self.weights can hold: what __init__ stores, and what a caller
\* who takes line 100's "can be configured" at its word assigns afterwards
WeightInputs ==
    {DefaultWeights, [security |-> 50, reputation |-> 50, compliance |-> 50]}

NoEngine == [state |-> "none", config |-> "None", weights |-> <<>>, scorers |-> {}]

\* line 79 stores config or {}; lines 89-97 call config.get on the argument
\* itself, which raises AttributeError on None before any scorer is built
TrustScoringEngine(config) ==
    IF config = "None"
    THEN [state |-> "raised", config |-> "empty", weights |-> <<>>, scorers |-> {}]
    ELSE [state |-> "ready", config |-> config, weights |-> DefaultWeights,
          scorers |-> ScorerNames]

(***************************************************************************)
(* The category aggregators (engine.py 212-303): three coroutines of the   *)
(* same shape, each awaiting its three scorers one after the other.        *)
(***************************************************************************)
\* the frame of an aggregator that has not yet awaited its first scorer
NewFrame ==
    [st |-> "run", pos |-> 0, metrics |-> <<>>, total_score |-> 0, max_score |-> 0,
     score |-> 0, exc |-> "none"]

\* lines 236 / 267 / 298: total_score / max_score if max_score > 0 else 0.0, in
\* 1/10^4 (total_score is in 1/10^4 and max_score in tenths)
CategoryFinalScore(total_score, max_score) ==
    IF max_score > 0 THEN (total_score * 10) \div max_score ELSE 0

\* an aggregator that gives up at the first check whose metrics say
\* 'success': False, as one that re-raised the check's failure would
Accumulate_failfast(frame, name, weight, ret) ==
    [frame EXCEPT !.pos = @ + 1,
                  !.metrics = Append(@, [key |-> name, value |-> ret.metrics]),
                  !.st = IF ret.metrics.success THEN @ ELSE "exc",
                  !.exc = IF ret.metrics.success THEN @ ELSE "Exception",
                  !.total_score = @ + ret.score * weight,
                  !.max_score = @ + weight]

\* an aggregator that keeps max_score on self, where every call in flight adds
\* its weights to the same attribute
Accumulate_on_self(frame, name, weight, ret) ==
    [frame EXCEPT !.pos = @ + 1,
                  !.metrics = Append(@, [key |-> name, value |-> ret.metrics]),
                  !.total_score = @ + ret.score * weight,
                  !.max_score = @ + weight * Cardinality({j \in DOMAIN pc : pc[j] = "gather"})]

\* lines 219-222 and the eight blocks like it: the scorer returned (score, metrics);
\* the metrics are stored under the scorer's name, score * weight is added to
\* total_score and the weight to max_score, whatever 'success' says
Accumulate(frame, name, weight, ret) ==
    [frame EXCEPT !.pos = @ + 1,
                  !.metrics = Append(@, [key |-> name, value |-> ret.metrics]),
                  !.total_score = @ + ret.score * weight,
                  !.max_score = @ + weight]

\* an aggregator that returns as soon as two of its scorers have returned
ReturnIfLast_early(frame) ==
    IF frame.pos >= Len(CheckWeights) - 1
    THEN [frame EXCEPT !.st = "ret",
                       !.score = CategoryFinalScore(frame.total_score, frame.max_score)]
    ELSE frame

\* lines 236-241: after the third scorer the aggregator returns
\* {'score': final_score, 'metrics': metrics}
ReturnIfLast(frame) ==
    IF frame.pos = Len(CheckWeights)
    THEN [frame EXCEPT !.st = "ret",
                       !.score = CategoryFinalScore(frame.total_score, frame.max_score)]
    ELSE frame

\* an exception raised by the awaited scorer leaves the coroutine: nothing in
\* 212-303 catches it, and the frame's locals are lost
Propagate(frame, e) == [NewFrame EXCEPT !.st = "exc", !.exc = e]

\* what escapes a scorer's own "except Exception": an Exception raised outside
\* its try or inside its handler, and asyncio.CancelledError, a BaseException
Escaping == {"Exception", "CancelledError"}

(***************************************************************************)
(* score_website (engine.py 107-210), from the return of gather().         *)
(***************************************************************************)
NoResult == [returned |-> FALSE]

CategoryLabel ==
    [security |-> "Security", reputation |-> "Reputation", compliance |-> "Compliance"]

\* the results handed over in the order their coroutines ended, as a loop over
\* asyncio.as_completed would; the order is known only where it was observed
as_completed(results, order) ==
    IF Len(order) = Len(Categories)
    THEN [c \in CategorySet |->
            results[order[CHOOSE k \in 1..Len(Categories) : Categories[k] = c]]]
    ELSE results

\* lines 131-133: gather returns the results in the order of its arguments
\* (security, reputation, compliance), whatever the order of completion
gather(results, order) == results

\* lines 136-146: isinstance(result, Exception) is false of a dict and of a
\* CancelledError
IsException(frame) == frame.st = "exc" /\ frame.exc = "Exception"

\* a handled result that puts the neutral score 0.5 in place of an Exception
Handled_neutral(frame) ==
    IF frame.st = "exc" /\ frame.exc = "Exception"
    THEN [subscriptable |-> TRUE, score |-> 5000, metrics |-> <<>>]
    ELSE [subscriptable |-> frame.st = "ret", score |-> frame.score,
          metrics |-> frame.metrics]

\* lines 136-146: the handled result of one category
Handled(frame) ==
    IF IsException(frame)
    THEN [subscriptable |-> TRUE, score |-> 0, metrics |-> <<>>]
    ELSE [subscriptable |-> frame.st = "ret", score |-> frame.score,
          metrics |-> frame.metrics]

\* lines 136-146: one message per category that returned an Exception, in the
\* order security, reputation, compliance
RECURSIVE ErrorsFrom(_, _)
ErrorsFrom(frames, k) ==
    IF k > Len(Categories) THEN <<>>
    ELSE (IF IsException(frames[Categories[k]])
          THEN <<CategoryLabel[Categories[k]] \o " scoring failed">>
          ELSE <<>>) \o ErrorsFrom(frames, k + 1)

\* a warning for every category whose score is not above 0.5
RECURSIVE WarningsFrom_inclusive(_, _)
WarningsFrom_inclusive(handled, k) ==
    IF k > Len(Categories) THEN <<>>
    ELSE (IF handled[Categories[k]].score <= 5000
          THEN <<"Low " \o Categories[k] \o " score detected">>
          ELSE <<>>) \o WarningsFrom_inclusive(handled, k + 1)

\* lines 169-175: one warning per category whose score is below 0.5
RECURSIVE WarningsFrom(_, _)
WarningsFrom(handled, k) ==
    IF k > Len(Categories) THEN <<>>
    ELSE (IF handled[Categories[k]].score < 5000
          THEN <<"Low " \o Categories[k] \o " score detected">>
          ELSE <<>>) \o WarningsFrom(handled, k + 1)

\* a result whose level is taken from the security score alone
ScoringResult_security_level(u, final_score, trust_level, confidence, handled, warnings, errors) ==
    [returned |-> TRUE,
     url |-> u,
     final_score |-> final_score,
     trust_level |-> from_score(handled.security.score * 100),
     confidence |-> confidence,
     security_score |-> handled.security.score,
     reputation_score |-> handled.reputation.score,
     compliance_score |-> handled.compliance.score,
     detailed_metrics |-> [k \in 1..Len(Categories) |->
                             [key |-> Categories[k], value |-> handled[Categories[k]].metrics]],
     warnings |-> warnings,
     errors |-> errors,
     timestamp |-> "utc_now",
     method |-> "aihint-scoring-v1"]

\* lines 179-191
ScoringResult(u, final_score, trust_level, confidence, handled, warnings, errors) ==
    [returned |-> TRUE,
     url |-> u,
     final_score |-> final_score,
     trust_level |-> trust_level,
     confidence |-> confidence,
     security_score |-> handled.security.score,
     reputation_score |-> handled.reputation.score,
     compliance_score |-> handled.compliance.score,
     detailed_metrics |-> [k \in 1..Len(Categories) |->
                             [key |-> Categories[k], value |-> handled[Categories[k]].metrics]],
     warnings |-> warnings,
     errors |-> errors,
     timestamp |-> "utc_now",
     method |-> "aihint-scoring-v1"]

\* lines 198-210: the result built by the except branch
EngineErrorResult(u) ==
    [returned |-> TRUE,
     url |-> u,
     final_score |-> 0,
     trust_level |-> "VERY_LOW",
     confidence |-> 0,
     security_score |-> 0,
     reputation_score |-> 0,
     compliance_score |-> 0,
     detailed_metrics |-> <<>>,
     warnings |-> <<>>,
     errors |-> <<"Scoring engine error">>,
     timestamp |-> "utc_now",
     method |-> "aihint-scoring-v1"]

\* lines 135-194, the try block after gather(): subscripting a result that is
\* neither a dict nor a handled Exception raises TypeError (line 150)
TryBlock(eng, u, frames) ==
    LET handled == [c \in CategorySet |-> Handled(frames[c])]
        errors == ErrorsFrom(frames, 1)
    IN  IF \E c \in CategorySet : ~handled[c].subscriptable
        THEN [raised |-> TRUE, result |-> NoResult]
        ELSE LET final_score == _calculate_weighted_score(eng.weights,
                                    handled.security.score,
                                    handled.reputation.score,
                                    handled.compliance.score)
                 confidence == _calculate_confidence(handled.security.metrics,
                                    handled.reputation.metrics,
                                    handled.compliance.metrics)
                 warnings == WarningsFrom(handled, 1)
             IN  [raised |-> FALSE,
                  result |-> ScoringResult(u, final_score, from_score(final_score),
                                           confidence, handled, warnings, errors)]

\* score_website without its except handler (lines 196-210)
score_website_unguarded(eng, u, frames) == TryBlock(eng, u, frames)

\* lines 123-210: the outcome of the call, a returned result or an exception
\* that leaves score_website
score_website(eng, u, frames) ==
    LET try == TryBlock(eng, u, frames)
    IN  IF try.raised
        THEN [raised |-> FALSE, result |-> EngineErrorResult(u)]
        ELSE try

(***************************************************************************)
(* The state machine.                                                      *)
(***************************************************************************)
\* a scorer of the registry is the live scorer, or a test double that returns a
\* fixed (score, metrics)
Live == [kind |-> "live"]

Double(ret) == [kind |-> "double", ret |-> ret]

\* what awaiting self.scorers[name].score(url) can return
Returns(name, u) ==
    IF stub[name].kind = "double"
    THEN {stub[name].ret}
    ELSE {ScorerScore(name, u, o) : o \in Observations(name)}

NewFrames == [c \in CategorySet |-> NewFrame]

NoProbe == [asked |-> FALSE]

Init ==
    /\ engine = NoEngine
    /\ stub = [n \in ScorerNames |-> Live]
    /\ pc = [i \in Slots |-> "idle"]
    /\ url = [i \in Slots |-> "wellformed"]
    /\ agg = [i \in Slots |-> NewFrames]
    /\ result = [i \in Slots |-> NoResult]
    /\ finished = [i \in Slots |-> <<>>]
    /\ probe = NoProbe
    /\ cli = NoCommand
    /\ hint = NoHint

\* engine = TrustScoringEngine(config)
Construct(config) ==
    /\ engine.state = "none"
    /\ engine' = TrustScoringEngine(config)
    /\ UNCHANGED <<stub, pc, url, agg, result, finished, probe, cli, hint>>

\* engine.weights = weights, between two calls: the attribute is a plain dict
\* and nothing guards it
SetWeights(weights) ==
    /\ engine.state = "ready"
    /\ \A i \in Slots : pc[i] = "idle"
    /\ engine.weights # weights
    /\ engine' = [engine EXCEPT !.weights = weights]
    /\ UNCHANGED <<stub, pc, url, agg, result, finished, probe, cli, hint>>

\* engine.py 107-133: the call builds the three coroutines and awaits gather()
Call(i, u) ==
    /\ engine.state = "ready"
    /\ pc[i] = "idle"
    /\ pc' = [pc EXCEPT ![i] = "gather"]
    /\ url' = [url EXCEPT ![i] = u]
    /\ agg' = [agg EXCEPT ![i] = NewFrames]
    /\ UNCHANGED <<engine, stub, result, finished, probe, cli, hint>>

\* the scorer an aggregator awaits returns
ScorerReturns(i, c) ==
    /\ pc[i] = "gather"
    /\ agg[i][c].st = "run"
    /\ LET name == CategoryChecks[c][agg[i][c].pos + 1]
           weight == CheckWeights[agg[i][c].pos + 1]
       IN  \E ret \in Returns(name, url[i]) :
               LET frame == ReturnIfLast(Accumulate(agg[i][c], name, weight, ret))
               IN  /\ agg' = [agg EXCEPT ![i][c] = frame]
                   /\ finished' = IF frame.st = "ret" /\ stub[name].kind = "double"
                                  THEN [finished EXCEPT ![i] = Append(@, c)]
                                  ELSE finished
    /\ UNCHANGED <<engine, stub, pc, url, result, probe, cli, hint>>

\* the scorer an aggregator awaits raises past its own handler
ScorerRaises(i, c) ==
    /\ pc[i] = "gather"
    /\ agg[i][c].st = "run"
    /\ stub[CategoryChecks[c][agg[i][c].pos + 1]].kind = "live"
    /\ \E e \in Escaping : agg' = [agg EXCEPT ![i][c] = Propagate(agg[i][c], e)]
    /\ UNCHANGED <<engine, stub, pc, url, result, finished, probe, cli, hint>>

\* a call that rescales the weights it used and stores them on self
score_website_self_rescaling(eng) ==
    [eng EXCEPT !.weights = [security |-> 50, reputation |-> 50, compliance |-> 50]]

\* lines 107-336: what a call leaves in self; score_website, the aggregators and
\* the two reductions read self.scorers, self.weights and self.logger and
\* assign to no attribute of self
score_website_self(eng) == eng

\* gather(return_exceptions=True) returns once the three coroutines are done;
\* the rest of score_website runs without suspending
GatherReturns(i) ==
    /\ pc[i] = "gather"
    /\ \A c \in CategorySet : agg[i][c].st # "run"
    /\ LET out == score_website(engine, url[i], gather(agg[i], finished[i]))
       IN  /\ pc' = [pc EXCEPT ![i] = IF out.raised THEN "raised" ELSE "done"]
           /\ result' = [result EXCEPT ![i] = out.result]
    /\ engine' = score_website_self(engine)
    /\ UNCHANGED <<stub, url, agg, finished, probe, cli, hint>>

\* the caller is done with the result; the engine can be called again
Release(i) ==
    /\ pc[i] \in {"done", "raised"}
    /\ pc' = [pc EXCEPT ![i] = "idle"]
    /\ url' = [url EXCEPT ![i] = "wellformed"]
    /\ agg' = [agg EXCEPT ![i] = NewFrames]
    /\ result' = [result EXCEPT ![i] = NoResult]
    /\ finished' = [finished EXCEPT ![i] = <<>>]
    /\ UNCHANGED <<engine, stub, probe, cli, hint>>

\* one caller at a time, the scorers live
Next ==
    \/ \E config \in ConfigInputs : Construct(config)
    \/ \E weights \in WeightInputs : SetWeights(weights)
    \/ \E u \in UrlKinds : Call(1, u)
    \/ \E c \in CategorySet : ScorerReturns(1, c)
    \/ \E c \in CategorySet : ScorerRaises(1, c)
    \/ GatherReturns(1)
    \/ Release(1)

Spec == Init /\ [][Next]_vars

(***************************************************************************)
(* The engine under test doubles: every scorer of the registry is replaced *)
(* by a double that returns a fixed (score, metrics), and score_website is *)
(* run once per slot, one run after the other, on the same url.            *)
(***************************************************************************)
\* the score a category's doubles return when they succeed
DoubleScore == [security |-> 800, reputation |-> 600, compliance |-> 900]

CategoryOf(name) ==
    CHOOSE c \in CategorySet : \E k \in 1..Len(CategoryChecks[c]) : CategoryChecks[c][k] = name

\* the doubles of a category that fail: none, one of them, or all three
FailingDoubles == {{}, {1}, {2}, {3}, {1, 2, 3}}

\* the registry with, in each category, the given doubles failing
Registry(failing) ==
    [n \in ScorerNames |->
        LET c == CategoryOf(n)
            k == CHOOSE j \in 1..Len(CategoryChecks[c]) : CategoryChecks[c][j] = n
        IN  IF k \in failing[c] THEN Double(Failed)
            ELSE Double(Succeeded(DoubleScore[c]))]

\* doubles that put security exactly on the warning threshold 0.5, reputation
\* below it and compliance above it
ThresholdScore == [security |-> 500, reputation |-> 400, compliance |-> 900]

ThresholdRegistry ==
    [n \in ScorerNames |-> Double(Succeeded(ThresholdScore[CategoryOf(n)]))]

InitDoubles ==
    /\ engine = TrustScoringEngine("empty")
    /\ stub \in {Registry(failing) : failing \in [CategorySet -> FailingDoubles]}
                   \cup {ThresholdRegistry}
    /\ pc = [i \in Slots |-> "idle"]
    /\ url = [i \in Slots |-> "wellformed"]
    /\ agg = [i \in Slots |-> NewFrames]
    /\ result = [i \in Slots |-> NoResult]
    /\ finished = [i \in Slots |-> <<>>]
    /\ probe = NoProbe
    /\ cli = NoCommand
    /\ hint = NoHint

\* the next run starts when the one before it has returned
CallAgain(i) ==
    /\ i > 1
    /\ pc[i - 1] = "done"
    /\ Call(i, url[i - 1])

NextDoubles ==
    \/ Call(1, "wellformed")
    \/ \E i \in Slots : CallAgain(i)
    \/ \E i \in Slots, c \in CategorySet : ScorerReturns(i, c)
    \/ \E i \in Slots : GatherReturns(i)

SpecDoubles == InitDoubles /\ [][NextDoubles]_vars

(***************************************************************************)
(* The classifier on its own: TrustLevel.from_score applied to scores      *)
(* sampled over [0,1] at steps of 1/Resolution.                            *)
(***************************************************************************)
Resolution == 200

SampledScores == {(k * 1000000) \div Resolution : k \in 0..Resolution}

Classified(score) == [asked |-> TRUE, score |-> score, trust_level |-> from_score(score)]

InitClassifier ==
    /\ engine = NoEngine
    /\ stub = [n \in ScorerNames |-> Live]
    /\ pc = [i \in Slots |-> "idle"]
    /\ url = [i \in Slots |-> "wellformed"]
    /\ agg = [i \in Slots |-> NewFrames]
    /\ result = [i \in Slots |-> NoResult]
    /\ finished = [i \in Slots |-> <<>>]
    /\ probe \in {Classified(score) : score \in SampledScores}
    /\ cli = NoCommand
    /\ hint = NoHint

\* level = TrustLevel.from_score(score)
Classify(score) ==
    /\ probe' = Classified(score)
    /\ UNCHANGED <<engine, stub, pc, url, agg, result, finished, cli, hint>>

NextClassifier == \E score \in SampledScores : Classify(score)

SpecClassifier == InitClassifier /\ [][NextClassifier]_vars

(***************************************************************************)
(* Properties.                                                             *)
(***************************************************************************)
Returned(i) == pc[i] = "done"

\* the call took the try block to its end (engine.py 194), not the except branch
NormalPath(i) ==
    /\ Returned(i)
    /\ \A c \in CategorySet : agg[i][c].st = "ret" \/ IsException(agg[i][c])

\* the call returned from the except branch (engine.py 198-210)
EngineFailurePath(i) == Returned(i) /\ ~NormalPath(i)

CategoryScore(i, c) ==
    CASE c = "security"   -> result[i].security_score
      [] c = "reputation" -> result[i].reputation_score
      [] c = "compliance" -> result[i].compliance_score

InUnit(x, one) == 0 <= x /\ x <= one

\* C1: every returned ScoringResult has its final_score in [0,1] and each of its
\* three category scores in [0,1]
C1_ScoreBounds ==
    \A i \in Slots :
        Returned(i) =>
            /\ InUnit(result[i].final_score, 1000000)
            /\ \A c \in CategorySet : InUnit(CategoryScore(i, c), 10000)

\* the entries of a category's metrics that succeeded / failed
Succeeding(metrics) == {k \in DOMAIN metrics : metrics[k].value.success}

Failing(metrics) == DOMAIN metrics \ Succeeding(metrics)

RECURSIVE SumOver(_, _)
SumOver(f, S) ==
    IF S = {} THEN 0
    ELSE LET k == CHOOSE x \in S : TRUE IN f[k] + SumOver(f, S \ {k})

\* the sum of score * weight, and of weight, over the successful entries
WeightedSuccesses(metrics) ==
    SumOver([k \in DOMAIN metrics |-> metrics[k].value.score * CheckWeights[k]],
            Succeeding(metrics))

WeightOfSuccesses(metrics) ==
    SumOver([k \in DOMAIN metrics |-> CheckWeights[k]], Succeeding(metrics))

\* C2: when exactly one check of a category fails and the two others succeed, the
\* category score is the weighted mean of the two others over their own weights:
\* score * (sum of their weights) = sum of their score * weight
C2_FailedCheckExcluded ==
    \A i \in Slots : \A c \in CategorySet :
        (/\ Returned(i)
         /\ agg[i][c].st = "ret"
         /\ Cardinality(Failing(agg[i][c].metrics)) = 1
         /\ Cardinality(Succeeding(agg[i][c].metrics)) = 2)
        => agg[i][c].score * WeightOfSuccesses(agg[i][c].metrics)
              = WeightedSuccesses(agg[i][c].metrics) * 10

\* the entry of detailed_metrics under a category's key
DetailedMetrics(i, c) ==
    LET k == CHOOSE k \in DOMAIN result[i].detailed_metrics :
                 result[i].detailed_metrics[k].key = c
    IN  result[i].detailed_metrics[k].value

\* what the engine owes a call in which category c did not return and the two
\* others did: one errors entry for c, score 0 for c, the two others untouched
\* and weighted into the final score
Isolated(i, c) ==
    LET others == CategorySet \ {c}
        scoreOf == [d \in CategorySet |-> IF d = c THEN 0 ELSE agg[i][d].score]
    IN  /\ result[i].errors = <<CategoryLabel[c] \o " scoring failed">>
        /\ CategoryScore(i, c) = 0
        /\ Len(result[i].detailed_metrics) = Len(Categories)
        /\ \A d \in others :
              /\ CategoryScore(i, d) = agg[i][d].score
              /\ DetailedMetrics(i, d) = agg[i][d].metrics
        /\ result[i].final_score =
              _calculate_weighted_score(engine.weights, scoreOf.security,
                                        scoreOf.reputation, scoreOf.compliance)

OnlyFailure(i, c) ==
    /\ Returned(i)
    /\ agg[i][c].st = "exc"
    /\ \A d \in CategorySet \ {c} : agg[i][d].st = "ret"

\* what the code does where C3 applies: an instance of Exception is isolated as
\* C3 says; a CancelledError is not an Exception and gives the engine-failure
\* result
ExceptionIsolated ==
    \A i \in Slots : \A c \in CategorySet :
        /\ (OnlyFailure(i, c) /\ agg[i][c].exc = "Exception") => Isolated(i, c)
        /\ (OnlyFailure(i, c) /\ agg[i][c].exc = "CancelledError")
              => result[i] = EngineErrorResult(url[i])

\* C3: when exactly one category aggregator raises during score_website, the
\* engine catches the exception, appends exactly one errors entry for that
\* category, sets that category's score to 0.0, and keeps the two other
\* categories' scores and metrics as returned and weighted into the final score
C3_RaiseIsolated ==
    \A i \in Slots : \A c \in CategorySet :
        OnlyFailure(i, c) => Isolated(i, c)

\* reputation raised an Exception, security and compliance returned non-zero
\* scores, and the call has returned
ExceptionIsolatedCase ==
    /\ OnlyFailure(1, "reputation")
    /\ agg[1]["reputation"].exc = "Exception"
    /\ agg[1]["security"].score > 0
    /\ agg[1]["compliance"].score > 0
    /\ result[1].final_score > 0

\* the number of checks of call i that reported success=true to the engine
SuccessfulChecks(i) ==
    SumOver([c \in CategorySet |->
                IF agg[i][c].st = "ret"
                THEN Cardinality(Succeeding(agg[i][c].metrics)) ELSE 0],
            CategorySet)

\* C4: confidence = (checks that reported success) / (nine declared checks), in
\* every returned result
C4_ConfidenceOverDeclared ==
    \A i \in Slots :
        Returned(i) => result[i].confidence * NumChecks = SuccessfulChecks(i) * ConfUnit

\* the all-failed inputs: every one of the nine checks returned success=false
AllChecksFailed(i) ==
    \A c \in CategorySet :
        /\ agg[i][c].st = "ret"
        /\ Succeeding(agg[i][c].metrics) = {}

\* C7: when all nine checks fail, the result has final_score 0.0, confidence 0.0,
\* VERY_LOW, and a non-empty errors list
C7_TotalFailureReported ==
    \A i \in Slots :
        (Returned(i) /\ AllChecksFailed(i)) =>
            /\ result[i].final_score = 0
            /\ result[i].confidence = 0
            /\ result[i].trust_level = "VERY_LOW"
            /\ result[i].errors # <<>>

\* the degenerate result of an engine-level failure
Degenerate(r) ==
    /\ r.returned
    /\ r.final_score = 0
    /\ r.security_score = 0
    /\ r.reputation_score = 0
    /\ r.compliance_score = 0
    /\ r.trust_level = "VERY_LOW"
    /\ r.confidence = 0
    /\ Len(r.errors) = 1

\* C9: a call on a malformed URL returns the degenerate result: all scores 0.0,
\* VERY_LOW, confidence 0.0, exactly one errors entry
C9_MalformedUrlDegenerate ==
    \A i \in Slots :
        (Returned(i) /\ url[i] = "malformed") => Degenerate(result[i])

\* C5: on the normal path final_score = 0.40*security_score +
\* 0.35*reputation_score + 0.25*compliance_score; the category scores
\* (0.8, 0.6, 0.9) give final_score 0.755 and trust_level GOOD
C5_WeightedFinalScore ==
    \A i \in Slots :
        NormalPath(i) =>
            /\ result[i].final_score = 40 * result[i].security_score
                                         + 35 * result[i].reputation_score
                                         + 25 * result[i].compliance_score
            /\ (/\ result[i].security_score = 8000
                /\ result[i].reputation_score = 6000
                /\ result[i].compliance_score = 9000)
               => (result[i].final_score = 755000 /\ result[i].trust_level = "GOOD")

\* C5 witness: a call on the normal path returned category scores (0.8, 0.6, 0.9)
C5_Witness ==
    /\ NormalPath(1)
    /\ result[1].security_score = 8000
    /\ result[1].reputation_score = 6000
    /\ result[1].compliance_score = 9000

\* the bands whose documented range holds the score
BandOf(score) == {LevelNames[k] : k \in MatchingLevels(score)}

\* the documented band of each boundary score
BoundaryBand(score) ==
    CASE score = 290000 -> "VERY_LOW"
      [] score = 300000 -> "LOW"
      [] score = 490000 -> "LOW"
      [] score = 500000 -> "MODERATE"
      [] score = 690000 -> "MODERATE"
      [] score = 700000 -> "GOOD"
      [] score = 890000 -> "GOOD"
      [] score = 900000 -> "HIGH"
      [] OTHER -> probe.trust_level

\* C6: every score in [0,1] lies in exactly one band (no gap between adjacent
\* bands, no overlap), from_score returns that band, and the boundary scores
\* map to the documented bands
C6_ClassifierTotal ==
    (probe.asked /\ InUnit(probe.score, 1000000)) =>
        /\ BandOf(probe.score) = {probe.trust_level}
        /\ probe.trust_level = BoundaryBand(probe.score)

\* the fields of a ScoringResult (engine.py 50-64)
ScoringResultFields ==
    {"returned", "url", "final_score", "trust_level", "confidence", "security_score",
     "reputation_score", "compliance_score", "detailed_metrics", "warnings",
     "errors", "timestamp", "method"}

FullyPopulated(i) ==
    /\ DOMAIN result[i] = ScoringResultFields
    /\ result[i].returned
    /\ result[i].url = url[i]
    /\ result[i].trust_level \in {LevelNames[k] : k \in DOMAIN LevelNames}
    /\ result[i].timestamp = "utc_now"
    /\ result[i].method = "aihint-scoring-v1"

\* C8: score_website never raises, whatever checks fail and whatever categories
\* raise; a call that has ended has returned one fully populated ScoringResult,
\* and no result exists before that
C8_NeverRaises ==
    \A i \in Slots :
        /\ pc[i] # "raised"
        /\ Returned(i) => FullyPopulated(i)
        /\ ~Returned(i) => result[i] = NoResult

\* C8 witness: a call has returned although one category ended with a
\* CancelledError, another with an Exception, and a check of the third failed
C8_Witness ==
    /\ Returned(1)
    /\ \E c, d, e \in CategorySet :
          /\ agg[1][c].st = "exc" /\ agg[1][c].exc = "CancelledError"
          /\ agg[1][d].st = "exc" /\ agg[1][d].exc = "Exception"
          /\ agg[1][e].st = "ret" /\ Failing(agg[1][e].metrics) # {}

\* C10: two runs of score_website against doubles that return fixed values give
\* the same final_score, confidence and trust_level, whatever the order in which
\* the categories and their checks completed in either run
C10_Deterministic ==
    \A i, j \in Slots :
        (Returned(i) /\ Returned(j)) =>
            /\ result[i].final_score = result[j].final_score
            /\ result[i].confidence = result[j].confidence
            /\ result[i].trust_level = result[j].trust_level

\* C10 witness: two runs have returned, their categories completed in different
\* orders, and some but not all checks succeeded
C10_Witness ==
    /\ Returned(1)
    /\ Returned(2)
    /\ Len(finished[1]) = Len(Categories)
    /\ Len(finished[2]) = Len(Categories)
    /\ finished[1] # finished[2]
    /\ result[1].final_score > 0
    /\ result[1].confidence \in 1..(ConfUnit - 1)

\* the entries of a frame's metrics that carry 'error': the checks whose
\* exception (a timeout included) was caught by the scorer's own handler
Caught(metrics) == {k \in DOMAIN metrics : metrics[k].value.error}

\* the sum of score * weight over all entries of a category's metrics
WeightedAll(metrics) ==
    SumOver([k \in DOMAIN metrics |-> metrics[k].value.score * CheckWeights[k]],
            DOMAIN metrics)

\* C11: an exception or timeout raised inside a check is caught by the check and
\* returned as success=false (score 0.0, with error); the aggregator does not
\* fail on it, goes on to the remaining checks of the category, and returns a
\* category result holding all three checks' metrics and the score the other
\* checks contribute
C11_CheckFailureContained ==
    \A i \in Slots : \A c \in CategorySet :
        LET frame == agg[i][c] IN
        /\ \A k \in Caught(frame.metrics) :
              /\ ~frame.metrics[k].value.success
              /\ frame.metrics[k].value.score = 0
        /\ Caught(frame.metrics) # {} => frame.st \in {"run", "ret"}
        /\ frame.st = "run" =>
              /\ Len(frame.metrics) = frame.pos
              /\ frame.pos < Len(CategoryChecks[c])
        /\ frame.st = "ret" =>
              /\ [k \in DOMAIN frame.metrics |-> frame.metrics[k].key] = CategoryChecks[c]
              /\ frame.score = WeightedAll(frame.metrics)
              /\ frame.score = WeightedSuccesses(frame.metrics)

\* C11 witness: the first check of security failed inside the scorer, the two
\* others ran after it and succeeded, the category returned a non-zero score and
\* the call returned it
C11_Witness ==
    /\ NormalPath(1)
    /\ agg[1]["security"].st = "ret"
    /\ Caught(agg[1]["security"].metrics) = {1}
    /\ Succeeding(agg[1]["security"].metrics) = {2, 3}
    /\ agg[1]["security"].score > 0
    /\ result[1].security_score = agg[1]["security"].score
    /\ DetailedMetrics(1, "security") = agg[1]["security"].metrics

\* the warning that names a category
WarningFor(c) == "Low " \o c \o " score detected"

\* the positions of result i's warnings that name category c
WarningsNaming(i, c) ==
    {k \in DOMAIN result[i].warnings : result[i].warnings[k] = WarningFor(c)}

\* C12: on the normal path the warnings name a category if and only if its score
\* is strictly below 0.5, at most once each, nothing else is among the warnings,
\* and the result is returned with them
C12_WarningsBelowHalf ==
    \A i \in Slots :
        NormalPath(i) =>
            /\ \A c \in CategorySet :
                  /\ WarningsNaming(i, c) # {} <=> CategoryScore(i, c) < 5000
                  /\ Cardinality(WarningsNaming(i, c)) <= 1
            /\ \A k \in DOMAIN result[i].warnings :
                  \E c \in CategorySet : k \in WarningsNaming(i, c)
            /\ FullyPopulated(i)

\* C12 witness: security scored exactly 0.5 and has no warning, reputation scored
\* below 0.5 and has its warning, compliance scored above and has none
C12_Witness ==
    /\ NormalPath(1)
    /\ result[1].security_score = 5000
    /\ result[1].reputation_score < 5000
    /\ result[1].compliance_score > 5000
    /\ result[1].warnings = <<WarningFor("reputation")>>

\* the sum of the three category weights, in hundredths
WeightSum(weights) == weights.security + weights.reputation + weights.compliance

\* C13: a construction with weights that do not sum to 1.0 is rejected, and no
\* engine whose weights do not sum to 1.0 ever runs score_website
C13_WeightsValidated ==
    /\ engine.config = "weights" => engine.state # "ready"
    /\ \A i \in Slots : pc[i] # "idle" => WeightSum(engine.weights) = 100

\* C14: every returned result, from the try block or from the except branch,
\* has trust_level = TrustLevel.from_score(final_score), and
\* get_trust_level_description(final_score) is the description of that level
C14_LevelFromFinalScore ==
    \A i \in Slots :
        Returned(i) =>
            /\ result[i].trust_level = from_score(result[i].final_score)
            /\ get_trust_level_description(result[i].final_score)
                  = Descriptions[result[i].trust_level]

\* C14 witness: a result of the normal path whose final score lies in the GOOD
\* band while its security score lies in another band
C14_Witness ==
    /\ NormalPath(1)
    /\ result[1].trust_level = "GOOD"
    /\ from_score(result[1].security_score * 100) # "GOOD"
    /\ get_trust_level_description(result[1].final_score) = Descriptions.GOOD

\* the metrics maps the scorers have returned to the aggregators of call i
ReturnedMetrics(i) ==
    UNION {{agg[i][c].metrics[k].value : k \in DOMAIN agg[i][c].metrics} :
             c \in CategorySet}

\* C15: every metrics map a scorer returns, on every return path, has the keys
\* success (a boolean) and timestamp, and has the key error whenever success is
\* false
C15_MetricsShape ==
    \A i \in Slots : \A m \in ReturnedMetrics(i) :
        /\ {"success", "timestamp", "error"} \subseteq DOMAIN m
        /\ m.success \in BOOLEAN
        /\ m.timestamp
        /\ ~m.success => m.error

\* C15 witness: the compliance aggregator holds a map from a scorer's except
\* branch, one from an early return (no privacy policy found) and one from a
\* normal return
C15_Witness ==
    LET metrics == agg[1]["compliance"].metrics IN
    /\ agg[1]["compliance"].st = "ret"
    /\ metrics[1].value.success /\ metrics[1].value.score = 0
    /\ ~metrics[2].value.success /\ metrics[2].value.error
    /\ metrics[3].value.success /\ metrics[3].value.score > 0

\* C16: every score a scorer returns lies in [0,1], whatever the page content and
\* whatever its sub-checks returned
C16_ScorerScoreInUnit ==
    \A i \in Slots : \A m \in ReturnedMetrics(i) : InUnit(m.score, 1000)

(***************************************************************************)
(* The scoring commands (src/aihint/cli_scoring.py): "score" for one url   *)
(* and "batch" for several.  A command loads its configuration, builds an  *)
(* engine, runs asyncio.run(engine.score_website(url)) once per url on     *)
(* call slot 1, renders what came back and echoes it or writes it to the   *)
(* --output file.                                                          *)
(***************************************************************************)
\* the most urls given as arguments to one batch command
MaxUrls == 1

\* --config and --file: not given, a file that can be read, one that cannot
FileOptions == {"absent", "readable", "unreadable"}

\* --output: not given, a path that can be written, one that cannot
OutputOptions == {"absent", "writable", "unwritable"}

\* line 24, click.Choice
Formats == {"json", "text", "table"}

UrlLists == UNION {[1..n -> UrlKinds] : n \in 0..MaxUrls}

\* the urls a readable --file holds, one per line
FileUrls == <<"wellformed">>

\* lines 30-37 and 106-113: scoring_config is {} unless --config is given, and
\* then what json.load returns; any exception is reported and ends the command
load_config(config) ==
    CASE config = "absent"     -> [ok |-> TRUE, scoring_config |-> "empty"]
      [] config = "readable"   -> [ok |-> TRUE, scoring_config |-> "timeouts"]
      [] config = "unreadable" -> [ok |-> FALSE, scoring_config |-> "empty"]

\* lines 91-99: the arguments, then the lines of --file
collect_urls(urls, file) ==
    CASE file = "absent"     -> [ok |-> TRUE, all_urls |-> urls]
      [] file = "readable"   -> [ok |-> TRUE, all_urls |-> urls \o FileUrls]
      [] file = "unreadable" -> [ok |-> FALSE, all_urls |-> urls]

\* open(output, 'w') raises OSError
open_raises(output) == output = "unwritable"

\* lines 48-61 and 139-152: the json object of one result
json_object(r) ==
    [url |-> r.url, final_score |-> r.final_score, trust_level |-> r.trust_level,
     confidence |-> r.confidence, security_score |-> r.security_score,
     reputation_score |-> r.reputation_score, compliance_score |-> r.compliance_score,
     warnings |-> r.warnings, errors |-> r.errors, timestamp |-> r.timestamp,
     method |-> r.method, detailed_metrics |-> r.detailed_metrics]

\* lines 224-253: the text of one result; the url is not part of it
_format_text_output(r, verbose) ==
    [final_score |-> r.final_score, trust_level |-> r.trust_level,
     confidence |-> r.confidence, security_score |-> r.security_score,
     reputation_score |-> r.reputation_score, compliance_score |-> r.compliance_score,
     warnings |-> r.warnings, errors |-> r.errors,
     detailed_metrics |-> IF verbose THEN r.detailed_metrics ELSE <<>>]

\* lines 256-270: the table of one result; neither url, warnings nor errors
_format_table_output(r) ==
    [final_score |-> r.final_score, trust_level |-> r.trust_level,
     confidence |-> r.confidence, security_score |-> r.security_score,
     reputation_score |-> r.reputation_score, compliance_score |-> r.compliance_score]

\* lines 279-287: one block per result (the summary that follows is left out);
\* the verbose argument is accepted and never read
_format_batch_text_output(results) ==
    [k \in 1..Len(results) |->
        [url |-> results[k].url, final_score |-> results[k].final_score,
         trust_level |-> results[k].trust_level,
         security_score |-> results[k].security_score,
         reputation_score |-> results[k].reputation_score,
         compliance_score |-> results[k].compliance_score,
         warnings |-> results[k].warnings, errors |-> results[k].errors]]

\* lines 319-321: one row per result; the row shows the first 30 characters of
\* the url
_format_batch_table_output(results) ==
    [k \in 1..Len(results) |->
        [url_head |-> results[k].url, final_score |-> results[k].final_score,
         trust_level |-> results[k].trust_level,
         security_score |-> results[k].security_score,
         reputation_score |-> results[k].reputation_score,
         compliance_score |-> results[k].compliance_score]]

\* lines 47-67: output_text of the score command, a one-entry text
score_output_text(output_format, verbose, r) ==
    CASE output_format = "json"  -> <<json_object(r)>>
      [] output_format = "table" -> <<_format_table_output(r)>>
      [] output_format = "text"  -> <<_format_text_output(r, verbose)>>

\* lines 136-158: output_text of the batch command
batch_output_text(output_format, results) ==
    CASE output_format = "json"  -> [k \in 1..Len(results) |-> json_object(results[k])]
      [] output_format = "table" -> _format_batch_table_output(results)
      [] output_format = "text"  -> _format_batch_text_output(results)

\* a running command: its options, where it is, what score_website returned to
\* it so far (returned), the results list it keeps, the urls of its "Scoring:"
\* lines (progress), the error messages it echoed (messages), and the
\* output_text it echoed (stdout) or wrote (file)
Command(cmd, urls, output, output_format, verbose) ==
    [cmd |-> cmd, pc |-> "run", exit |-> "none", started |-> FALSE,
     urls |-> urls, k |-> 1, output |-> output, output_format |-> output_format,
     verbose |-> verbose, returned |-> <<>>, results |-> <<>>,
     progress |-> <<>>, stdout |-> <<>>, messages |-> <<>>, file |-> <<>>]

\* the command returns to the shell
Exit(c, message) ==
    [c EXCEPT !.pc = "exit", !.exit = "returned",
              !.messages = IF message = "" THEN @ ELSE Append(@, message)]

\* an exception leaves the command: click prints the traceback
Crash(c, exception) ==
    [c EXCEPT !.pc = "exit", !.exit = "crashed", !.messages = Append(@, exception)]

\* lines 69-74 and 160-165: the text goes to the file or to stdout
write_output(c, output_text) ==
    IF c.output = "absent"
    THEN [raised |-> FALSE, c |-> [c EXCEPT !.stdout = output_text]]
    ELSE IF open_raises(c.output)
         THEN [raised |-> TRUE, c |-> c]
         ELSE [raised |-> FALSE, c |-> [c EXCEPT !.file = output_text]]

\* lines 44-77: the try block of score around asyncio.run, the rendering and the
\* writing, and its except branch
score_try(c, out) ==
    IF out.raised
    THEN Exit(c, "Error scoring website")
    ELSE LET seen == [c EXCEPT !.returned = Append(@, out.result)]
             written == write_output(seen, score_output_text(c.output_format, c.verbose,
                                                             out.result))
         IN  IF written.raised
             THEN Exit(seen, "Error scoring website")
             ELSE Exit(written.c, "")

\* a loop body that keeps a result only if it carries no error
batch_body_clean(c, out) ==
    LET seen == [c EXCEPT !.k = @ + 1,
                          !.returned = IF out.raised THEN @ ELSE Append(@, out.result)]
    IN  IF out.raised \/ out.result.errors # <<>>
        THEN [seen EXCEPT !.messages = Append(@, "Error")]
        ELSE [seen EXCEPT !.results = Append(@, out.result)]

\* lines 122-129: one turn of the batch loop
batch_body(c, out) ==
    LET seen == [c EXCEPT !.k = @ + 1,
                          !.returned = IF out.raised THEN @ ELSE Append(@, out.result)]
    IN  IF out.raised
        THEN [seen EXCEPT !.messages = Append(@, "Error")]
        ELSE [seen EXCEPT !.results = Append(@, out.result)]

\* lines 131-165: after the loop
batch_finish(c) ==
    IF c.results = <<>>
    THEN Exit(c, "No successful scores")
    ELSE LET written == write_output(c, batch_output_text(c.output_format, c.results))
         IN  IF written.raised THEN Crash(c, "OSError") ELSE Exit(written.c, "")

\* the registries the commands are run against: doubles that all succeed,
\* doubles that all fail, and doubles around a live ssl_tls scorer
AllSucceed == Registry([c \in CategorySet |-> {}])

AllFail == Registry([c \in CategorySet |-> {1, 2, 3}])

LiveSSL == [AllSucceed EXCEPT !["ssl_tls"] = Live]

InitCLI ==
    /\ engine = NoEngine
    /\ stub \in {AllSucceed, AllFail, LiveSSL}
    /\ pc = [i \in Slots |-> "idle"]
    /\ url = [i \in Slots |-> "wellformed"]
    /\ agg = [i \in Slots |-> NewFrames]
    /\ result = [i \in Slots |-> NoResult]
    /\ finished = [i \in Slots |-> <<>>]
    /\ probe = NoProbe
    /\ cli = NoCommand
    /\ hint = NoHint

\* aihint scoring score URL [--config C] [--output O] [--format F] [--verbose],
\* lines 26-43
ScoreCommand(u, config, output, output_format, verbose) ==
    /\ cli.cmd = "none"
    /\ LET c == Command("score", <<u>>, output, output_format, verbose)
           loaded == load_config(config)
       IN  IF ~loaded.ok
           THEN /\ cli' = Exit(c, "Error loading config")
                /\ UNCHANGED engine
           ELSE /\ engine' = TrustScoringEngine(loaded.scoring_config)
                /\ cli' = [c EXCEPT !.started = TRUE, !.progress = <<u>>]
    /\ UNCHANGED <<stub, pc, url, agg, result, finished, probe, hint>>

\* aihint scoring batch URLS... [--file F] [--config C] [--output O] [--format F],
\* lines 87-120
BatchCommand(urls, file, config, output, output_format, verbose) ==
    /\ cli.cmd = "none"
    /\ LET collected == collect_urls(urls, file)
           c == Command("batch", collected.all_urls, output, output_format, verbose)
           loaded == load_config(config)
       IN  IF ~collected.ok
           THEN cli' = Exit(c, "Error reading file") /\ UNCHANGED engine
           ELSE IF collected.all_urls = <<>>
           THEN cli' = Exit(c, "No URLs provided") /\ UNCHANGED engine
           ELSE IF ~loaded.ok
           THEN cli' = Exit(c, "Error loading config") /\ UNCHANGED engine
           ELSE /\ engine' = TrustScoringEngine(loaded.scoring_config)
                /\ cli' = [c EXCEPT !.started = TRUE]
    /\ UNCHANGED <<stub, pc, url, agg, result, finished, probe, hint>>

\* lines 45 and 125: asyncio.run(engine.score_website(url)) begins
RunScoreWebsite ==
    /\ cli.cmd # "none" /\ cli.pc = "run"
    /\ cli.k <= Len(cli.urls)
    /\ Call(1, cli.urls[cli.k])

\* the outcome of the call that asyncio.run hands back or re-raises
Outcome(i) == [raised |-> pc[i] = "raised", result |-> result[i]]

\* the call slot is free again
Freed ==
    /\ pc' = [pc EXCEPT ![1] = "idle"]
    /\ url' = [url EXCEPT ![1] = "wellformed"]
    /\ agg' = [agg EXCEPT ![1] = NewFrames]
    /\ result' = [result EXCEPT ![1] = NoResult]
    /\ finished' = [finished EXCEPT ![1] = <<>>]

\* score, lines 45-77, from the return of asyncio.run to the end of the command
ScoreFinishes ==
    /\ cli.cmd = "score" /\ cli.pc = "run"
    /\ pc[1] \in {"done", "raised"}
    /\ cli' = score_try(cli, Outcome(1))
    /\ Freed
    /\ UNCHANGED <<engine, stub, probe, hint>>

\* batch, lines 123-129: asyncio.run is back, the loop goes to the next url
BatchCollects ==
    /\ cli.cmd = "batch" /\ cli.pc = "run"
    /\ pc[1] \in {"done", "raised"}
    /\ cli' = [batch_body(cli, Outcome(1)) EXCEPT !.progress = Append(@, url[1])]
    /\ Freed
    /\ UNCHANGED <<engine, stub, probe, hint>>

\* batch, lines 131-165: the loop is over
BatchFinishes ==
    /\ cli.cmd = "batch" /\ cli.pc = "run"
    /\ cli.k > Len(cli.urls)
    /\ pc[1] = "idle"
    /\ cli' = batch_finish(cli)
    /\ UNCHANGED <<engine, stub, pc, url, agg, result, finished, probe, hint>>

NextCLI ==
    \/ \E u \in UrlKinds, config \in FileOptions, output \in OutputOptions,
          output_format \in Formats, verbose \in BOOLEAN :
            ScoreCommand(u, config, output, output_format, verbose)
    \/ \E urls \in UrlLists, file \in FileOptions, config \in FileOptions,
          output \in OutputOptions, output_format \in Formats, verbose \in {FALSE} :
            BatchCommand(urls, file, config, output, output_format, verbose)
    \/ RunScoreWebsite
    \/ \E c \in CategorySet : ScorerReturns(1, c)
    \/ \E c \in CategorySet : ScorerRaises(1, c)
    \/ GatherReturns(1)
    \/ ScoreFinishes
    \/ BatchCollects
    \/ BatchFinishes

SpecCLI == InitCLI /\ [][NextCLI]_vars

\* the text the command emitted: the file's when --output was given
Emitted == IF cli.output = "absent" THEN cli.stdout ELSE cli.file

\* the command got as far as scoring and is over, and its --output, if any, can
\* be written
ScoredAndOver ==
    /\ cli.cmd # "none" /\ cli.pc = "exit"
    /\ cli.started
    /\ ~open_raises(cli.output)

\* some check or the engine itself failed while the command scored
ScoringFailure ==
    \E k \in 1..Len(cli.returned) : cli.returned[k].errors # <<>>
                                       \/ cli.returned[k].confidence < ConfUnit

\* C17: whatever fails while scoring, the score command emits a result for its
\* url and the batch command scores every url and emits one result per url, in
\* order, and neither command crashes
C17_CliAlwaysOutputs ==
    ScoredAndOver =>
        /\ cli.exit = "returned"
        /\ Len(cli.returned) = Len(cli.urls)
        /\ cli.progress = cli.urls
        /\ Len(Emitted) = Len(cli.urls)
        /\ \A k \in 1..Len(cli.urls) :
              /\ cli.returned[k].url = cli.urls[k]
              /\ Emitted[k].final_score = cli.returned[k].final_score
              /\ Emitted[k].trust_level = cli.returned[k].trust_level
              /\ (cli.cmd = "batch" /\ cli.output_format # "table")
                    => Emitted[k].url = cli.urls[k]
              /\ (cli.cmd = "batch" /\ cli.output_format = "table")
                    => Emitted[k].url_head = cli.urls[k]

C17_Witness ==
    /\ ScoredAndOver /\ cli.cmd = "batch"
    /\ Len(cli.urls) = 2
    /\ cli.returned[1].errors # <<>>
    /\ cli.returned[2].errors = <<>>
    /\ Len(Emitted) = 2

(***************************************************************************)
(* AIHint documents (src/aihint/core.py, src/aihint/models.py): Python     *)
(* values, dicts, the canonical JSON that is signed, RSA signatures, and   *)
(* the AIHintGlobal model with its save and load.                          *)
(*                                                                         *)
(* A dict is the sequence of its <<key, value>> items in insertion order.  *)
(* A str is a record that tells what the text is: plain characters, the    *)
(* text of a datetime, or base64 of some bytes.  A datetime is its local   *)
(* wall-clock reading in minutes, its microsecond and its tzinfo.          *)
(***************************************************************************)
Plain(chars) == [t |-> "str", text |-> [kind |-> "plain", chars |-> chars]]

Float(x) == [t |-> "float", x |-> x]

PyNone == [t |-> "None"]

Datetime(d) == [t |-> "datetime", d |-> d]

\* tzinfo objects: datetime.timezone.utc, none, a fixed offset, a named zone
UTC == [aware |-> TRUE, offset |-> 0, name |-> "UTC"]

Naive == [aware |-> FALSE, offset |-> 0, name |-> "none"]

FixedOffset(minutes) == [aware |-> TRUE, offset |-> minutes, name |-> "fixed"]

Paris == [aware |-> TRUE, offset |-> 60, name |-> "Europe/Paris"]

\* datetime.__eq__: two aware datetimes are equal when they are the same
\* instant, two naive ones when they read the same; a naive one never equals
\* an aware one
datetime_eq(a, b) ==
    IF a.tz.aware # b.tz.aware THEN FALSE
    ELSE /\ a.local - a.tz.offset = b.local - b.tz.offset
         /\ a.micro = b.micro

\* utcoffset() as isoformat prints it, and back
FormatOffset(minutes) == IF minutes = 0 THEN "+00:00" ELSE "+01:00"

ParseOffset(text) == IF text = "+00:00" THEN 0 ELSE 60

\* a text that keeps the seconds and drops the microsecond
str_datetime_seconds(d) ==
    [kind |-> "datetime", local |-> d.local, sep |-> " ", fraction |-> <<>>,
     offset |-> IF d.tz.aware THEN FormatOffset(d.tz.offset) ELSE ""]

\* str(datetime), what json's default=str writes (core.py 133, 184, 293):
\* isoformat with a space, the fraction only when the microsecond is not 0,
\* the utc offset only when the datetime is aware
str_datetime(d) ==
    [kind |-> "datetime", local |-> d.local, sep |-> " ",
     fraction |-> IF d.micro = 0 THEN <<>> ELSE <<d.micro>>,
     offset |-> IF d.tz.aware THEN FormatOffset(d.tz.offset) ELSE ""]

\* models.py 64, v.replace('Z', '+00:00')
replace_Z(text) ==
    IF text.kind = "datetime" /\ text.offset = "Z"
    THEN [text EXCEPT !.offset = "+00:00"]
    ELSE text

\* datetime.fromisoformat: any separator, optional fraction, optional offset;
\* ValueError on any other text
fromisoformat(text) ==
    IF text.kind # "datetime" \/ text.offset = "Z"
    THEN [raised |-> TRUE, d |-> <<>>]
    ELSE [raised |-> FALSE,
          d |-> [local |-> text.local,
                 micro |-> IF text.fraction = <<>> THEN 0 ELSE text.fraction[1],
                 tz |-> IF text.offset = "" THEN Naive
                        ELSE IF ParseOffset(text.offset) = 0 THEN UTC
                        ELSE FixedOffset(ParseOffset(text.offset))]]

\* dict operations
dict_keys(data) == {data[i][1] : i \in DOMAIN data}

dict_get(data, key) ==
    IF key \in dict_keys(data)
    THEN data[CHOOSE i \in DOMAIN data : data[i][1] = key][2]
    ELSE PyNone

dict_pop(data, key) == SelectSeq(data, LAMBDA item : item[1] # key)

dict_set(data, key, value) ==
    IF key \in dict_keys(data)
    THEN [i \in DOMAIN data |-> IF data[i][1] = key THEN <<key, value>> ELSE data[i]]
    ELSE Append(data, <<key, value>>)

\* models.py 34-44: the fields in declaration order, the order of model_dump()
FieldNames ==
    <<"version", "type", "target", "issuer", "score", "method", "issued_at",
      "expires_at", "comment", "signature", "public_key_url">>

FieldSet == {FieldNames[i] : i \in DOMAIN FieldNames}

\* the same names in the order sorted() puts them
SortedNames ==
    <<"comment", "expires_at", "issued_at", "issuer", "method", "public_key_url",
      "score", "signature", "target", "type", "version">>

\* sorted(data.items()), and sort_keys=True
sorted_items(data) ==
    LET present == SelectSeq(SortedNames, LAMBDA key : key \in dict_keys(data))
    IN  [i \in DOMAIN present |-> <<present[i], dict_get(data, present[i])>>]

\* json.dumps of one value with default=str
json_value(v) ==
    CASE v.t = "str"      -> [j |-> "string", text |-> v.text]
      [] v.t = "float"    -> [j |-> "number", x |-> v.x]
      [] v.t = "None"     -> [j |-> "null"]
      [] v.t = "datetime" -> [j |-> "string", text |-> str_datetime(v.d)]

\* json.loads of one value
python_value(j) ==
    CASE j.j = "string" -> [t |-> "str", text |-> j.text]
      [] j.j = "number" -> Float(j.x)
      [] j.j = "null"   -> PyNone

\* json.dumps(data, default=str) without sort_keys: the items in dict order
json_dumps(data) == [i \in DOMAIN data |-> <<data[i][1], json_value(data[i][2])>>]

json_loads(document) ==
    [i \in DOMAIN document |-> <<document[i][1], python_value(document[i][2])>>]

\* the bytes to sign without the sorting: the items in the order of the dict
_create_signature_data_unsorted(data) == json_dumps(dict_pop(data, "signature"))

\* core.py 123-134, AIHintSigner._create_signature_data
_create_signature_data(data) ==
    json_dumps(sorted_items(sorted_items(dict_pop(data, "signature"))))

\* the verifier's bytes with the signature field left in
Verifier_create_signature_data_whole(data) == json_dumps(sorted_items(sorted_items(data)))

\* core.py 174-185, AIHintVerifier._create_signature_data
Verifier_create_signature_data(data) ==
    json_dumps(sorted_items(sorted_items(dict_pop(data, "signature"))))

\* RSA keys: the private keys at hand; a public key names its private key
PrivateKeys == {"issuer_key", "other_key"}

public_key(private_key) == [public_of |-> private_key]

\* the randomness a signing call can draw
Salts == {"salt_a", "salt_b"}

\* a signature with randomized padding (PSS): the salt is part of it
private_key_sign_pss(private_key, message, salt) ==
    [signer |-> private_key, message |-> message, salt |-> salt]

\* core.py 143-147, private_key.sign with PKCS1v15 and SHA256: the padding is
\* fixed, the signature is a function of key and message
private_key_sign(private_key, message, salt) ==
    [signer |-> private_key, message |-> message, salt |-> "none"]

\* core.py 207-212, public_key.verify returns, or raises InvalidSignature
public_key_verify(key, signature, message) ==
    /\ signature.signer = key.public_of
    /\ signature.message = message

b64encode(bytes) == [t |-> "str", text |-> [kind |-> "base64", bytes |-> bytes]]

\* base64.b64decode: the bytes, or for other text bytes that are no signature
\* (or binascii.Error)
b64decode(value) ==
    IF value.text.kind = "base64" THEN value.text.bytes
    ELSE [signer |-> "nobody", message |-> <<>>, salt |-> "none"]

\* core.py 136-152, AIHintSigner.sign
sign(private_key, data, salt) ==
    b64encode(private_key_sign(private_key, _create_signature_data(data), salt))

\* bool(value) for what data.get returns
truthy(value) ==
    /\ value.t # "None"
    /\ ~(value.t = "str" /\ value.text.kind = "plain" /\ value.text.chars = "")

\* what self.session.get(public_key_url) hands back: a key, or nothing
Fetched == {[ok |-> TRUE, key |-> public_key(k)] : k \in PrivateKeys}
               \cup {[ok |-> FALSE, key |-> public_key("nobody")]}

\* core.py 187-216, AIHintVerifier.verify: True, or AIHintSignatureError for
\* every exception raised inside the try
verify(data, fetched) ==
    LET signature_b64 == dict_get(data, "signature")
        public_key_url == dict_get(data, "public_key_url")
    IN  IF ~truthy(signature_b64) \/ ~truthy(public_key_url)
        THEN "AIHintSignatureError"
        ELSE IF ~fetched.ok
        THEN "AIHintSignatureError"
        ELSE IF signature_b64.t # "str"
        THEN "AIHintSignatureError"
        ELSE IF public_key_verify(fetched.key, b64decode(signature_b64),
                                  Verifier_create_signature_data(data))
        THEN "True"
        ELSE "AIHintSignatureError"

\* models.py 56, re.match(r'^https?://', v)
HttpUrls == {"https://example.com", "http://shop.example", "https://trust.aihint.org",
             "https://trust.aihint.org/pubkey.pem"}

\* models.py 60-65, parse_datetime (mode='before'), then the datetime field
parse_datetime(v) ==
    IF v.t = "str"
    THEN LET parsed == fromisoformat(replace_Z(v.text))
         IN  [raised |-> parsed.raised, value |-> Datetime(parsed.d)]
    ELSE [raised |-> v.t # "datetime", value |-> v]

\* models.py 13-65, AIHintGlobal(**data): the fields validated, or
\* ValidationError
AIHintGlobal(data) ==
    LET url_ok(key) == LET v == dict_get(data, key)
                       IN  v.t = "str" /\ v.text.kind = "plain" /\ v.text.chars \in HttpUrls
        str_ok(key) == dict_get(data, key).t = "str"
        issued_at == parse_datetime(dict_get(data, "issued_at"))
        expires_at == parse_datetime(dict_get(data, "expires_at"))
        score == dict_get(data, "score")
    IN  IF /\ str_ok("version") /\ str_ok("method") /\ str_ok("signature")
           /\ dict_get(data, "type") = Plain("global")
           /\ url_ok("target") /\ url_ok("issuer") /\ url_ok("public_key_url")
           /\ score.t = "float" /\ 0 <= score.x /\ score.x <= 1000
           /\ dict_get(data, "comment").t \in {"str", "None"}
           /\ ~issued_at.raised /\ ~expires_at.raised
        THEN [raised |-> FALSE,
              obj |-> [f \in FieldSet |->
                         CASE f = "issued_at"  -> issued_at.value
                           [] f = "expires_at" -> expires_at.value
                           [] OTHER            -> dict_get(data, f)]]
        ELSE [raised |-> TRUE, obj |-> <<>>]

\* hint.model_dump(): the fields in declaration order
model_dump(obj) == [i \in DOMAIN FieldNames |-> <<FieldNames[i], obj[FieldNames[i]]>>]

\* core.py 235-266, create_global_hint; issuer, method, public_key_url and
\* version are held fixed
create_global_hint(target, score, expires_at, comment, now) ==
    AIHintGlobal(<<
        <<"version", Plain("0.1")>>,
        <<"type", Plain("global")>>,
        <<"target", Plain(target)>>,
        <<"issuer", Plain("https://trust.aihint.org")>>,
        <<"score", Float(score)>>,
        <<"method", Plain("aihint-core-v1")>>,
        <<"issued_at", Datetime(now)>>,
        <<"expires_at", Datetime(expires_at)>>,
        <<"public_key_url", Plain("https://trust.aihint.org/pubkey.pem")>>,
        <<"signature", Plain("")>>,
        <<"comment", comment>> >>)

\* core.py 268-280, sign_hint
sign_hint(obj, private_key, salt) ==
    [obj EXCEPT !["signature"] = sign(private_key, model_dump(obj), salt)]

\* core.py 286-288, verify_hint
verify_hint(obj, fetched) == verify(model_dump(obj), fetched)

\* core.py 290-293, save_hint: the JSON document written
save_hint(obj) == json_dumps(model_dump(obj))

\* core.py 295-299, load_hint
load_hint(document) == AIHintGlobal(json_loads(document))

\* the arguments create_global_hint is called with
Targets == {"https://example.com", "http://shop.example"}

Scores == {0, 920, 1500}

Comments == {PyNone, Plain("Test hint")}

ExpiryInputs ==
    {[local |-> 720, micro |-> 0, tz |-> UTC],
     [local |-> 720, micro |-> 123456, tz |-> UTC],
     [local |-> 720, micro |-> 0, tz |-> Naive],
     [local |-> 780, micro |-> 0, tz |-> Paris]}

\* datetime.now(timezone.utc)
NowInputs == {[local |-> 600, micro |-> 250000, tz |-> UTC]}

(***************************************************************************)
(* Hints as objects: created, signed, verified, saved and loaded.          *)
(***************************************************************************)
\* nothing created, nothing signed, nothing saved
EmptyDesk ==
    [op |-> "none", obj |-> <<>>, data |-> <<>>, calls |-> <<>>,
     outcome |-> "none", fetched |-> <<>>, file |-> <<>>, loaded |-> <<>>]

EngineIdle ==
    /\ engine = NoEngine
    /\ stub = [n \in ScorerNames |-> Live]
    /\ pc = [i \in Slots |-> "idle"]
    /\ url = [i \in Slots |-> "wellformed"]
    /\ agg = [i \in Slots |-> NewFrames]
    /\ result = [i \in Slots |-> NoResult]
    /\ finished = [i \in Slots |-> <<>>]
    /\ probe = NoProbe
    /\ cli = NoCommand

EngineUnchanged == UNCHANGED <<engine, stub, pc, url, agg, result, finished, probe, cli>>

InitHint == EngineIdle /\ hint = EmptyDesk

\* hint = aihint.create_global_hint(...)
CreateGlobalHint(target, score, expires_at, comment, now) ==
    /\ LET created == create_global_hint(target, score, expires_at, comment, now)
       IN  hint' = IF created.raised
                   THEN [EmptyDesk EXCEPT !.op = "ValidationError"]
                   ELSE [EmptyDesk EXCEPT !.op = "create", !.obj = created.obj]
    /\ EngineUnchanged

\* hint = aihint.sign_hint(hint, private_key_path)
SignHint(private_key, salt) ==
    /\ hint.obj # <<>>
    /\ hint' = [hint EXCEPT !.op = "sign", !.obj = sign_hint(hint.obj, private_key, salt)]
    /\ EngineUnchanged

\* aihint.verify_hint(hint)
VerifyHint(fetched) ==
    /\ hint.obj # <<>>
    /\ hint' = [hint EXCEPT !.op = "verify", !.fetched = fetched,
                            !.outcome = verify_hint(hint.obj, fetched)]
    /\ EngineUnchanged

\* aihint.save_hint(hint, file_path)
SaveHint ==
    /\ hint.obj # <<>>
    /\ hint' = [hint EXCEPT !.op = "save", !.loaded = <<>>,
                            !.file = <<[document |-> save_hint(hint.obj), of |-> hint.obj]>>]
    /\ EngineUnchanged

\* loaded = aihint.load_hint(file_path)
LoadHint ==
    /\ hint.file # <<>>
    /\ hint' = [hint EXCEPT !.op = "load", !.loaded = <<load_hint(hint.file[1].document)>>]
    /\ EngineUnchanged

NextHint ==
    \/ \E target \in Targets, score \in Scores, expires_at \in ExpiryInputs,
          comment \in Comments, now \in NowInputs :
            CreateGlobalHint(target, score, expires_at, comment, now)
    \/ \E private_key \in PrivateKeys, salt \in Salts : SignHint(private_key, salt)
    \/ \E fetched \in Fetched : VerifyHint(fetched)
    \/ SaveHint
    \/ LoadHint

SpecHint == InitHint /\ [][NextHint]_vars

(***************************************************************************)
(* Hints as dicts, the way the signer and the verifier take them: a dict   *)
(* is taken from a created hint, its items are reordered, set or deleted,  *)
(* it is signed with AIHintSigner.sign and verified with                   *)
(* AIHintVerifier.verify.                                                  *)
(***************************************************************************)
Reverse(seq) == [i \in DOMAIN seq |-> seq[Len(seq) + 1 - i]]

\* the signature values a dict can be given by hand
HandSignatures == {Plain(""), Plain("invalid-signature")}

\* the items of a dict other than its signature, in no order
Content(data) == {data[i] : i \in {j \in DOMAIN data : data[j][1] # "signature"}}

\* the hints whose dicts are signed and verified
DataInputs ==
    {create_global_hint(target, 920, expires_at, PyNone, now) :
        target \in Targets,
        expires_at \in {e \in ExpiryInputs : e.micro = 0 /\ e.tz = UTC},
        now \in NowInputs}

\* the last two calls of sign on the items the dict has now are kept: the key,
\* the items signed, the first key of the dict and whether it had a signature
\* item, and what sign returned
Remember(calls, call) ==
    IF calls = <<>> THEN <<call>> ELSE <<calls[Len(calls)], call>>

InitSign == EngineIdle /\ hint = EmptyDesk

\* data = {...}: the dict of a hint, without its signature item as in the tests
TakeData(created) ==
    /\ ~created.raised
    /\ hint' = [EmptyDesk EXCEPT !.op = "data",
                   !.data = dict_pop(model_dump(created.obj), "signature")]
    /\ EngineUnchanged

\* the same dict built with its keys in the opposite order
Reorder ==
    /\ hint.data # <<>>
    /\ hint' = [hint EXCEPT !.op = "reorder", !.outcome = "none", !.fetched = <<>>,
                            !.data = Reverse(hint.data)]
    /\ EngineUnchanged

\* data["signature"] = value
SetSignature(value) ==
    /\ hint.data # <<>>
    /\ dict_get(hint.data, "signature") # value
    /\ hint' = [hint EXCEPT !.op = "set", !.outcome = "none", !.fetched = <<>>,
                            !.data = dict_set(hint.data, "signature", value)]
    /\ EngineUnchanged

\* del data[key]
DelItem(key) ==
    /\ key \in dict_keys(hint.data)
    /\ hint' = [hint EXCEPT !.op = "del", !.outcome = "none", !.fetched = <<>>,
                            !.calls = IF key = "signature" THEN @ ELSE <<>>,
                            !.data = dict_pop(hint.data, key)]
    /\ EngineUnchanged

\* data["score"] = another score, after the dict was signed
Tamper(score) ==
    /\ hint.data # <<>>
    /\ dict_get(hint.data, "score") # Float(score)
    /\ hint' = [hint EXCEPT !.op = "tamper", !.outcome = "none", !.fetched = <<>>,
                            !.calls = <<>>,
                            !.data = dict_set(hint.data, "score", Float(score))]
    /\ EngineUnchanged

\* signature = signer.sign(data); data["signature"] = signature
SignData(private_key, salt) ==
    /\ hint.data # <<>>
    /\ LET signature == sign(private_key, hint.data, salt)
       IN  hint' = [hint EXCEPT
                      !.op = "sign", !.outcome = "none", !.fetched = <<>>,
                      !.calls = Remember(@, [private_key |-> private_key,
                                             content |-> Content(hint.data),
                                             first |-> hint.data[1][1],
                                             had |-> dict_get(hint.data, "signature").t,
                                             signature |-> signature]),
                      !.data = dict_set(hint.data, "signature", signature)]
    /\ EngineUnchanged

\* verifier.verify(data)
VerifyData(fetched) ==
    /\ hint.data # <<>>
    /\ hint' = [hint EXCEPT !.op = "verify", !.fetched = fetched,
                            !.outcome = verify(hint.data, fetched)]
    /\ EngineUnchanged

NextSign ==
    \/ \E created \in DataInputs : TakeData(created)
    \/ Reorder
    \/ \E value \in HandSignatures : SetSignature(value)
    \/ \E key \in {"signature", "public_key_url"} : DelItem(key)
    \/ \E score \in Scores \ {1500} : Tamper(score)
    \/ \E private_key \in PrivateKeys, salt \in Salts : SignData(private_key, salt)
    \/ \E fetched \in Fetched : VerifyData(fetched)

SpecSign == InitSign /\ [][NextSign]_vars

\* the signature item of the dict is what AIHintSigner.sign returns for this
\* dict under the private key
SignedBy(data, private_key) ==
    \E salt \in Salts : dict_get(data, "signature") = sign(private_key, data, salt)

\* C18: verify returns True for a dict whose signature item was produced by sign
\* over the same dict with the private key of the fetched public key; it raises
\* AIHintSignatureError when the signature is not a valid signature of the dict
\* or when signature or public_key_url is missing; it never returns False
C18_VerifyTrueOrRaises ==
    hint.op = "verify" =>
        LET valid == /\ hint.fetched.ok
                     /\ SignedBy(hint.data, hint.fetched.key.public_of)
            missing == \/ ~truthy(dict_get(hint.data, "signature"))
                       \/ ~truthy(dict_get(hint.data, "public_key_url"))
        IN  /\ hint.outcome \in {"True", "AIHintSignatureError"}
            /\ (valid /\ ~missing) => hint.outcome = "True"
            /\ (~valid \/ missing) => hint.outcome = "AIHintSignatureError"

C18_Witness ==
    /\ hint.op = "verify" /\ hint.outcome = "True"
    /\ hint.data[1][1] = "signature"
    /\ dict_get(hint.data, "score") = Float(0)

\* C19: two calls of sign with the same key on dicts with the same items, in
\* whatever key order and with or without a signature item of whatever value,
\* return the same signature
C19_SignCanonical ==
    Len(hint.calls) = 2 =>
        ((/\ hint.calls[1].private_key = hint.calls[2].private_key
          /\ hint.calls[1].content = hint.calls[2].content)
            => hint.calls[1].signature = hint.calls[2].signature)

C19_Witness ==
    /\ hint.op = "sign" /\ Len(hint.calls) = 2
    /\ hint.calls[1].private_key = hint.calls[2].private_key
    /\ hint.calls[1].content = hint.calls[2].content
    /\ hint.calls[1].had = "None" /\ hint.calls[2].had = "str"
    /\ hint.calls[1].first # hint.calls[2].first
    /\ hint.calls[1].signature = hint.calls[2].signature

\* Python's == on two field values
py_eq(a, b) ==
    IF a.t = "datetime" /\ b.t = "datetime" THEN datetime_eq(a.d, b.d) ELSE a = b

\* C20: loading the file save_hint wrote for a hint, signed or not, gives a hint
\* every field of which equals the field of the hint that was saved
C20_SaveLoadRoundTrip ==
    hint.loaded # <<>> =>
        /\ ~hint.loaded[1].raised
        /\ \A f \in FieldSet : py_eq(hint.loaded[1].obj[f], hint.file[1].of[f])

C20_Witness ==
    /\ hint.op = "load" /\ ~hint.loaded[1].raised
    /\ hint.file[1].of["signature"].text.kind = "base64"
    /\ hint.file[1].of["expires_at"].d.tz = Paris
    /\ hint.loaded[1].obj["expires_at"].d.tz = FixedOffset(60)
    /\ hint.loaded[1].obj["issued_at"].d.micro > 0
    /\ hint.loaded[1].obj["target"] = hint.file[1].of["target"]

(***************************************************************************)
(* Scheduling inside one aggregator (engine.py 212-303).                   *)
(***************************************************************************)
\* the checks of the category whose score() has returned to the aggregator
Completed(frame) == 1..frame.pos

\* the checks whose score() coroutine has been created: line 219 creates and
\* awaits the first, line 225 is reached only when that await is over, and so on
Launched(frame) ==
    IF frame.st = "run" THEN 1..(frame.pos + 1) ELSE 1..frame.pos

\* C21: within an aggregator every check of the category is started before any
\* sibling check has completed
C21_ChecksLaunchedTogether ==
    \A i \in Slots : \A c \in CategorySet :
        (pc[i] = "gather" /\ agg[i][c].st = "run" /\ Completed(agg[i][c]) # {})
            => Launched(agg[i][c]) = DOMAIN CategoryChecks[c]

\* C22: score_website reduces (final score, confidence, trust level) only when
\* each of the three aggregators has returned or failed, and an aggregator
\* computes its category score only when all of its checks have returned; no
\* reduction reads a child that is still running
C22_FanInBarrier ==
    \A i \in Slots :
        /\ (pc[i] \in {"done", "raised"} \/ result[i].returned)
              => \A c \in CategorySet : agg[i][c].st # "run"
        /\ \A c \in CategorySet :
              /\ agg[i][c].st = "ret"
                    => /\ Completed(agg[i][c]) = DOMAIN CategoryChecks[c]
                       /\ Len(agg[i][c].metrics) = Len(CategoryChecks[c])
              /\ agg[i][c].st = "run" => agg[i][c].score = 0

C22_Witness ==
    /\ pc[1] = "done" /\ result[1].returned
    /\ agg[1]["security"].st = "exc"
    /\ agg[1]["reputation"].st = "ret" /\ agg[1]["reputation"].score > 0
    /\ agg[1]["compliance"].st = "ret"
    /\ result[1].final_score > 0

\* the check could not obtain its data: the failure reached score's own handler
\* (fault), or, in security_headers, _fetch_headers caught it and returned {}
\* (security_headers.py 120-128)
CouldNotObtain(name, o) == o.fault \/ (name = "security_headers" /\ ~o.fetched)

\* the scorers the aggregators of call i are awaiting
Awaited(i) ==
    {CategoryChecks[c][agg[i][c].pos + 1] : c \in {d \in CategorySet : agg[i][d].st = "run"}}

\* C23: a check that could not obtain its data (timeout, DNS failure, parse
\* failure, non-200 response) reports success=false, so it is not counted by
\* the confidence and the result's confidence is below 1.0
C23_FailureLowersConfidence ==
    \A i \in Slots :
        pc[i] = "gather" =>
            \A name \in Awaited(i) :
                stub[name].kind = "live" =>
                    \A o \in Observations(name) :
                        CouldNotObtain(name, o)
                            => ~ScorerScore(name, url[i], o).metrics.success

\* lines 238-241, 269-272, 300-303: the dict an aggregator returns
CategoryResult(frame) == [score |-> frame.score, metrics |-> frame.metrics]

\* C24: when no check of a category succeeds the category score is 0.0 and the
\* category result carries a degenerate flag, which tells it apart from a
\* category whose checks succeeded with score 0.0
C24_DegenerateFlagged ==
    \A i \in Slots : \A c \in CategorySet :
        agg[i][c].st = "ret" =>
            LET category_result == CategoryResult(agg[i][c])
            IN  Succeeding(agg[i][c].metrics) = {}
                    => /\ category_result.score = 0
                       /\ "degenerate" \in DOMAIN category_result

\* a step taken by a score_website call: its position or its frames change
CallStep == \E i \in Slots : pc'[i] # pc[i] \/ agg'[i] # agg[i] \/ result'[i] # result[i]

\* C25: score_website leaves the engine unchanged: no step of a call, on the
\* normal path or on the engine-failure path, changes the engine's weights, its
\* registry of scorers or its config
C25_EngineUnchanged == [][CallStep => engine' = engine]_vars

C25_Witness ==
    /\ pc[1] = "done" /\ EngineFailurePath(1)
    /\ engine = TrustScoringEngine("timeouts")
    /\ Cardinality(engine.scorers) = NumChecks

\* the place of a band in the order VERY_LOW < LOW < MODERATE < GOOD < HIGH
Rank(level) == CHOOSE k \in DOMAIN LevelNames : LevelNames[k] = level

\* C26: from_score is monotone over [0,1]: for scores a <= b the band of a is
\* not higher than the band of b
C26_ClassifierMonotone ==
    (probe.asked /\ InUnit(probe.score, 1000000)) =>
        \A b \in SampledScores :
            probe.score <= b => Rank(probe.trust_level) <= Rank(from_score(b))


\* lines 138, 141, 144: the three error messages, in the order of the checks
ErrorMessages ==
    [k \in 1..Len(Categories) |-> CategoryLabel[Categories[k]] \o " scoring failed"]

Range(seq) == {seq[k] : k \in DOMAIN seq}

\* C27: on the normal path every category named in errors also has its
\* low-score warning, and errors holds at most three entries in the order
\* security, reputation, compliance; on the engine-failure path warnings is
\* empty and errors holds exactly one entry
C27_ErrorsAndWarnings ==
    \A i \in Slots :
        /\ NormalPath(i) =>
              /\ \A k \in 1..Len(Categories) :
                    ErrorMessages[k] \in Range(result[i].errors)
                        => WarningFor(Categories[k]) \in Range(result[i].warnings)
              /\ Len(result[i].errors) <= Len(Categories)
              /\ result[i].errors =
                    SelectSeq(ErrorMessages, LAMBDA m : m \in Range(result[i].errors))
              /\ \A k \in 1..Len(Categories) :
                    ErrorMessages[k] \in Range(result[i].errors)
                        <=> IsException(agg[i][Categories[k]])
        /\ EngineFailurePath(i) =>
              /\ result[i].warnings = <<>>
              /\ Len(result[i].errors) = 1

C27_Witness ==
    /\ NormalPath(1)
    /\ result[1].errors = <<ErrorMessages[1], ErrorMessages[3]>>
    /\ WarningFor("security") \in Range(result[1].warnings)
    /\ WarningFor("reputation") \notin Range(result[1].warnings)


C29_DefaultConstruction ==
    (engine.state # "none" /\ engine.config = "empty") =>
        /\ engine.state = "ready"
        /\ engine.weights = DefaultWeights
        /\ engine.scorers = ScorerNames


(***************************************************************************)
(* Concurrent calls: several score_website coroutines started together on  *)
(* one engine (engine.py 107-133), their awaits interleaved by the event   *)
(* loop.                                                                   *)
(***************************************************************************)
\* doubles that succeed everywhere but for the live incident tracker, whose
\* result depends on the URL it is given
LiveIncidents == [AllSucceed EXCEPT !["incidents"] = Live]

\* the URLs of the calls: the first well-formed, the others not
ConcurrentUrls == [i \in Slots |-> IF i = 1 THEN "wellformed" ELSE "malformed"]

InitConcurrent ==
    /\ engine = TrustScoringEngine("empty")
    /\ stub = LiveIncidents
    /\ pc = [i \in Slots |-> "idle"]
    /\ url = [i \in Slots |-> "wellformed"]
    /\ agg = [i \in Slots |-> NewFrames]
    /\ result = [i \in Slots |-> NoResult]
    /\ finished = [i \in Slots |-> <<>>]
    /\ probe = NoProbe
    /\ cli = NoCommand
    /\ hint = NoHint

\* asyncio.gather(engine.score_website(u1), engine.score_website(u2), ...): every
\* call reaches line 125 before any of them is resumed
CallTogether(urls) ==
    /\ engine.state = "ready"
    /\ \A i \in Slots : pc[i] = "idle"
    /\ pc' = [i \in Slots |-> "gather"]
    /\ url' = urls
    /\ agg' = [i \in Slots |-> NewFrames]
    /\ UNCHANGED <<engine, stub, result, finished, probe, cli, hint>>

\* the calls' awaits in any order; the exceptions that escape a scorer are
\* followed in the first call
NextConcurrent ==
    \/ CallTogether(ConcurrentUrls)
    \/ \E i \in Slots, c \in CategorySet : ScorerReturns(i, c)
    \/ \E c \in CategorySet : ScorerRaises(1, c)
    \/ \E i \in Slots : GatherReturns(i)

SpecConcurrent == InitConcurrent /\ [][NextConcurrent]_vars

\* the frames one aggregator can end in when its call runs alone: lines 212-241
\* taken from the first await to the return, or to the exception that leaves it
RECURSIVE AloneFrames(_, _, _)
AloneFrames(c, u, frame) ==
    IF frame.st # "run" THEN {frame}
    ELSE LET name == CategoryChecks[c][frame.pos + 1]
             weight == CheckWeights[frame.pos + 1]
         IN  UNION {AloneFrames(c, u, ReturnIfLast(Accumulate(frame, name, weight, ret))) :
                        ret \in Returns(name, u)}
             \cup (IF stub[name].kind = "live"
                   THEN {Propagate(frame, e) : e \in Escaping}
                   ELSE {})

\* what score_website(u) can return when it is the only call on the engine
AloneOutcomes(eng, u) ==
    LET ends == [c \in CategorySet |-> AloneFrames(c, u, NewFrame)]
    IN  {score_website(eng, u, gather(frames, <<>>)) :
            frames \in {[security |-> s, reputation |-> r, compliance |-> c] :
                           s \in ends.security, r \in ends.reputation,
                           c \in ends.compliance}}

\* a call returns in this step
ReturnsNow(i) == pc[i] = "gather" /\ pc'[i] \in {"done", "raised"}

\* C30: calls that run concurrently on one engine do not interfere: whatever
\* the interleaving, each call returns a result (final_score, confidence,
\* category scores, detailed_metrics and the rest) that the same call returns
\* when it runs alone, and the calls still running leave a returned result alone
C30_ConcurrentCallsIndependent ==
    [][\A i \in Slots :
          /\ ReturnsNow(i) =>
                [raised |-> pc'[i] = "raised", result |-> result'[i]]
                    \in AloneOutcomes(engine, url[i])
          /\ pc[i] \in {"done", "raised"} => result'[i] = result[i]]_vars

C30_Witness ==
    /\ pc[1] = "done" /\ pc[2] = "done"
    /\ url[1] = "wellformed" /\ url[2] = "malformed"
    /\ NormalPath(1) /\ NormalPath(2)
    /\ Failing(agg[1]["reputation"].metrics) = {}
    /\ Failing(agg[2]["reputation"].metrics) = {3}
    /\ result[1].reputation_score > result[2].reputation_score
    /\ result[2].reputation_score > 0
    /\ result[1].final_score > result[2].final_score

=============================================================================
